---------------------------- MODULE Spec2Model ----------------------------
(***************************************************************************)
(* Streaming protocol engine of the chat backend:                          *)
(*   - the Part Encoder (StreamWriter, package streaming),                 *)
(*   - the Delta Accumulator (goroutine of LLMService.ChatStreamWithTools),*)
(*   - the Stream Orchestrator (ChatHandler.SendMessageStream).            *)
(*                                                                         *)
(* Go strings are modelled as sequences of one-character strings, so that  *)
(* the bytes on the wire, JSON escaping, partial writes and line framing   *)
(* are all visible in the state.  <<>> is the empty string.                *)
(***************************************************************************)
EXTENDS Integers, Sequences, FiniteSets, TLC

(***************************************************************************)
(* Characters.                                                             *)
(***************************************************************************)
\* ASCII 32..126 in code order; Printable[i] has code 31 + i.  (The grave
\* accent, code 96, cannot be written in a string literal here and is named.)
Printable ==
  <<" ", "!", "\"", "#", "$", "%", "&", "'", "(", ")", "*", "+", ",", "-", ".", "/", "0", "1", "2", "3", "4", "5", "6", "7", "8", "9", ":", ";", "<", "=", ">", "?">>
  \o <<"@", "A", "B", "C", "D", "E", "F", "G", "H", "I", "J", "K", "L", "M", "N", "O", "P", "Q", "R", "S", "T", "U", "V", "W", "X", "Y", "Z", "[", "\\", "]", "^", "_">>
  \o <<"GRAVE", "a", "b", "c", "d", "e", "f", "g", "h", "i", "j", "k", "l", "m", "n", "o", "p", "q", "r", "s", "t", "u", "v", "w", "x", "y", "z", "{", "|", "}", "~">>

\* Code point of a character (tab, newline, carriage return, the ASCII
\* printables, and one non-ASCII letter).
Ord(c) ==
  IF c = "\t" THEN 9
  ELSE IF c = "\n" THEN 10
  ELSE IF c = "\r" THEN 13
  ELSE IF \E i \in 1..Len(Printable) : Printable[i] = c
       THEN 31 + (CHOOSE i \in 1..Len(Printable) : Printable[i] = c)
  ELSE 233

\* Character of a code point (inverse of Ord on its range).
Chr(n) ==
  IF n = 9 THEN "\t"
  ELSE IF n = 10 THEN "\n"
  ELSE IF n = 13 THEN "\r"
  ELSE IF n >= 32 /\ n <= 126 THEN Printable[n - 31]
  ELSE "é"

HexDigits == <<"0", "1", "2", "3", "4", "5", "6", "7", "8", "9", "a", "b", "c", "d", "e", "f">>

IsHex(c) == \E i \in 1..16 : HexDigits[i] = c \/ c \in {"A", "B", "C", "D", "E", "F"}

HexVal(c) ==
  IF \E i \in 1..16 : HexDigits[i] = c
  THEN (CHOOSE i \in 1..16 : HexDigits[i] = c) - 1
  ELSE CASE c = "A" -> 10 [] c = "B" -> 11 [] c = "C" -> 12
         [] c = "D" -> 13 [] c = "E" -> 14 [] OTHER -> 15

IsDigit(c) == c \in {"0", "1", "2", "3", "4", "5", "6", "7", "8", "9"}

\* The characters with a code below 0x20 (Ord(c) < 32).
IsControl(c) == c \in {"\t", "\n", "\r"}

\* Lexicographic order on strings by code point (Go's string <).
RECURSIVE StrLess(_, _)
StrLess(a, b) ==
  IF b = <<>> THEN FALSE
  ELSE IF a = <<>> THEN TRUE
  ELSE IF Ord(Head(a)) # Ord(Head(b)) THEN Ord(Head(a)) < Ord(Head(b))
  ELSE StrLess(Tail(a), Tail(b))

(***************************************************************************)
(* JSON field names of the wire structs (the `json:"..."` struct tags).    *)
(***************************************************************************)
Key ==
  [messageId |-> <<"m", "e", "s", "s", "a", "g", "e", "I", "d">>,
   userMessageId |-> <<"u", "s", "e", "r", "M", "e", "s", "s", "a", "g", "e", "I", "d">>,
   toolCallId |-> <<"t", "o", "o", "l", "C", "a", "l", "l", "I", "d">>,
   toolName |-> <<"t", "o", "o", "l", "N", "a", "m", "e">>,
   args |-> <<"a", "r", "g", "s">>,
   result |-> <<"r", "e", "s", "u", "l", "t">>,
   argsTextDelta |-> <<"a", "r", "g", "s", "T", "e", "x", "t", "D", "e", "l", "t", "a">>,
   finishReason |-> <<"f", "i", "n", "i", "s", "h", "R", "e", "a", "s", "o", "n">>,
   usage |-> <<"u", "s", "a", "g", "e">>,
   isContinued |-> <<"i", "s", "C", "o", "n", "t", "i", "n", "u", "e", "d">>,
   promptTokens |-> <<"p", "r", "o", "m", "p", "t", "T", "o", "k", "e", "n", "s">>,
   completionTokens |-> <<"c", "o", "m", "p", "l", "e", "t", "i", "o", "n", "T", "o", "k", "e", "n", "s">>,
   totalTokens |-> <<"t", "o", "t", "a", "l", "T", "o", "k", "e", "n", "s">>,
   success |-> <<"s", "u", "c", "c", "e", "s", "s">>,
   error |-> <<"e", "r", "r", "o", "r">>,
   message |-> <<"m", "e", "s", "s", "a", "g", "e">>]

(***************************************************************************)
(* JSON values (Go's interface{} as seen by encoding/json).  A value is a  *)
(* tagged tuple; values of this kind are only built and consumed inside    *)
(* one step and never stored in the state.                                 *)
(*   <<"s", chars>>   string          <<"n", int>>     number              *)
(*   <<"b", bool>>    boolean         <<"z">>          null                *)
(*   <<"o", fields>>  struct/object, fields a sequence of <<key, value>>   *)
(*   <<"m", fields>>  Go map: marshalled with its keys sorted              *)
(*   <<"a", elems>>   array/slice                                          *)
(*   <<"x">>          a Go value encoding/json cannot marshal (chan, func) *)
(***************************************************************************)
JS(s) == <<"s", s>>
JN(n) == <<"n", n>>
JB(b) == <<"b", b>>
JNull == <<"z">>
JO(fields) == <<"o", fields>>
JM(fields) == <<"m", fields>>
JA(elems) == <<"a", elems>>
JUnsupported == <<"x">>

RECURSIVE Digits(_)
\* Decimal digits of a natural number (strconv.AppendInt).
Digits(n) ==
  IF n < 10 THEN <<HexDigits[n + 1]>>
  ELSE Digits(n \div 10) \o <<HexDigits[(n % 10) + 1]>>

FormatInt(n) == IF n < 0 THEN <<"-">> \o Digits(0 - n) ELSE Digits(n)

\* A variant of EscapeChar that escapes nothing.
EscapeChar_raw(c) == <<c>>

\* encoding/json string escaping of one character (HTML escaping is on by
\* default in json.Marshal).
EscapeChar(c) ==
  CASE c = "\"" -> <<"\\", "\"">>
    [] c = "\\" -> <<"\\", "\\">>
    [] c = "\n" -> <<"\\", "n">>
    [] c = "\r" -> <<"\\", "r">>
    [] c = "\t" -> <<"\\", "t">>
    [] c = "<"  -> <<"\\", "u", "0", "0", "3", "c">>
    [] c = ">"  -> <<"\\", "u", "0", "0", "3", "e">>
    [] c = "&"  -> <<"\\", "u", "0", "0", "2", "6">>
    [] OTHER    -> <<c>>

RECURSIVE EscapeString(_)
EscapeString(s) ==
  IF s = <<>> THEN <<>> ELSE EscapeChar(Head(s)) \o EscapeString(Tail(s))

\* A variant of Quote that copies the string between the quotes unescaped.
Quote_bare(s) == <<"\"">> \o s \o <<"\"">>

\* A Go string as a JSON string literal.
Quote(s) == <<"\"">> \o EscapeString(s) \o <<"\"">>

RECURSIVE InsertField(_, _)
\* Insertion of a <<key, value>> pair into a key-sorted field list.
InsertField(f, sorted) ==
  IF sorted = <<>> THEN <<f>>
  ELSE IF StrLess(f[1], Head(sorted)[1]) THEN <<f>> \o sorted
  ELSE <<Head(sorted)>> \o InsertField(f, Tail(sorted))

RECURSIVE SortFields(_)
\* Fields of a Go map in the order encoding/json writes them (sorted keys).
SortFields(fields) ==
  IF fields = <<>> THEN <<>>
  ELSE InsertField(Head(fields), SortFields(Tail(fields)))

RECURSIVE Marshalable(_)
\* Whether encoding/json can marshal the value.
Marshalable(v) ==
  CASE v[1] = "x" -> FALSE
    [] v[1] \in {"o", "m"} -> \A i \in 1..Len(v[2]) : Marshalable(v[2][i][2])
    [] v[1] = "a" -> \A i \in 1..Len(v[2]) : Marshalable(v[2][i])
    [] OTHER -> TRUE

RECURSIVE Encode(_), EncodeFields(_), EncodeElems(_)
\* The compact JSON text of a marshalable value.
Encode(v) ==
  CASE v[1] = "s" -> Quote(v[2])
    [] v[1] = "n" -> FormatInt(v[2])
    [] v[1] = "b" -> IF v[2] THEN <<"t", "r", "u", "e">> ELSE <<"f", "a", "l", "s", "e">>
    [] v[1] = "z" -> <<"n", "u", "l", "l">>
    [] v[1] = "o" -> <<"{">> \o EncodeFields(v[2]) \o <<"}">>
    [] v[1] = "m" -> <<"{">> \o EncodeFields(SortFields(v[2])) \o <<"}">>
    [] v[1] = "a" -> <<"[">> \o EncodeElems(v[2]) \o <<"]">>

EncodeFields(fs) ==
  IF fs = <<>> THEN <<>>
  ELSE Quote(Head(fs)[1]) \o <<":">> \o Encode(Head(fs)[2])
       \o (IF Len(fs) > 1 THEN <<",">> \o EncodeFields(Tail(fs)) ELSE <<>>)

EncodeElems(es) ==
  IF es = <<>> THEN <<>>
  ELSE Encode(Head(es))
       \o (IF Len(es) > 1 THEN <<",">> \o EncodeElems(Tail(es)) ELSE <<>>)

\* json.Marshal: the JSON text, or an error for an unsupported value.
JsonMarshal(v) ==
  IF Marshalable(v) THEN [err |-> FALSE, data |-> Encode(v)]
  ELSE [err |-> TRUE, data |-> <<>>]

(***************************************************************************)
(* json.Unmarshal into interface{}: a recursive-descent parser over the    *)
(* text.  Numbers are integers (the inputs modelled carry no fraction or   *)
(* exponent); an object becomes a Go map.  A result is                     *)
(* [ok, v, n]: success, the value, and the index after the value.          *)
(***************************************************************************)
ParseFail == [ok |-> FALSE, v |-> JNull, n |-> 0]

IsSpace(c) == c \in {" ", "\t", "\n", "\r"}

RECURSIVE SkipWS(_, _)
SkipWS(s, i) == IF i <= Len(s) /\ IsSpace(s[i]) THEN SkipWS(s, i + 1) ELSE i

\* Whether s has the literal lit at index i.
HasAt(s, i, lit) ==
  /\ i + Len(lit) - 1 <= Len(s)
  /\ \A k \in 1..Len(lit) : s[i + k - 1] = lit[k]

RECURSIVE ParseStrBody(_, _, _)
\* The rest of a string literal from index i (after the opening quote),
\* acc being the characters decoded so far.
ParseStrBody(s, i, acc) ==
  IF i > Len(s) THEN ParseFail
  ELSE IF s[i] = "\"" THEN [ok |-> TRUE, v |-> JS(acc), n |-> i + 1]
  ELSE IF s[i] = "\\" THEN
    IF i + 1 > Len(s) THEN ParseFail
    ELSE CASE s[i + 1] = "\"" -> ParseStrBody(s, i + 2, Append(acc, "\""))
           [] s[i + 1] = "\\" -> ParseStrBody(s, i + 2, Append(acc, "\\"))
           [] s[i + 1] = "/"  -> ParseStrBody(s, i + 2, Append(acc, "/"))
           [] s[i + 1] = "n"  -> ParseStrBody(s, i + 2, Append(acc, "\n"))
           [] s[i + 1] = "r"  -> ParseStrBody(s, i + 2, Append(acc, "\r"))
           [] s[i + 1] = "t"  -> ParseStrBody(s, i + 2, Append(acc, "\t"))
           [] s[i + 1] = "u"  ->
                IF i + 5 <= Len(s) /\ \A k \in 2..5 : IsHex(s[i + k])
                THEN ParseStrBody(s, i + 6,
                       Append(acc, Chr(4096 * HexVal(s[i + 2]) + 256 * HexVal(s[i + 3])
                                       + 16 * HexVal(s[i + 4]) + HexVal(s[i + 5]))))
                ELSE ParseFail
           [] OTHER -> ParseFail
  ELSE IF IsControl(s[i]) THEN ParseFail
  ELSE ParseStrBody(s, i + 1, Append(acc, s[i]))

RECURSIVE ParseDigits(_, _, _)
ParseDigits(s, i, acc) ==
  IF i <= Len(s) /\ IsDigit(s[i])
  THEN ParseDigits(s, i + 1, 10 * acc + HexVal(s[i]))
  ELSE [ok |-> TRUE, v |-> JN(acc), n |-> i]

ParseNumber(s, i) ==
  LET neg == s[i] = "-"
      j   == IF neg THEN i + 1 ELSE i
  IN IF j > Len(s) \/ ~IsDigit(s[j]) THEN ParseFail
     ELSE IF s[j] = "0" /\ j + 1 <= Len(s) /\ IsDigit(s[j + 1]) THEN ParseFail
     ELSE LET r == ParseDigits(s, j, 0)
          IN IF r.n <= Len(s) /\ s[r.n] \in {".", "e", "E"} THEN ParseFail
             ELSE [ok |-> TRUE, v |-> JN(IF neg THEN 0 - r.v[2] ELSE r.v[2]), n |-> r.n]

RECURSIVE ParseValue(_, _), ParseMembers(_, _, _), ParseElems(_, _, _)
ParseValue(s, i) ==
  IF i > Len(s) THEN ParseFail
  ELSE CASE s[i] = "\"" -> ParseStrBody(s, i + 1, <<>>)
         [] s[i] = "{" ->
              LET j == SkipWS(s, i + 1)
              IN IF j <= Len(s) /\ s[j] = "}"
                 THEN [ok |-> TRUE, v |-> JM(<<>>), n |-> j + 1]
                 ELSE ParseMembers(s, j, <<>>)
         [] s[i] = "[" ->
              LET j == SkipWS(s, i + 1)
              IN IF j <= Len(s) /\ s[j] = "]"
                 THEN [ok |-> TRUE, v |-> JA(<<>>), n |-> j + 1]
                 ELSE ParseElems(s, j, <<>>)
         [] s[i] = "-" \/ IsDigit(s[i]) -> ParseNumber(s, i)
         [] HasAt(s, i, <<"t", "r", "u", "e">>) -> [ok |-> TRUE, v |-> JB(TRUE), n |-> i + 4]
         [] HasAt(s, i, <<"f", "a", "l", "s", "e">>) -> [ok |-> TRUE, v |-> JB(FALSE), n |-> i + 5]
         [] HasAt(s, i, <<"n", "u", "l", "l">>) -> [ok |-> TRUE, v |-> JNull, n |-> i + 4]
         [] OTHER -> ParseFail

\* Members of an object from index i (at a key), acc the fields so far.
ParseMembers(s, i, acc) ==
  IF i > Len(s) \/ s[i] # "\"" THEN ParseFail
  ELSE LET k == ParseStrBody(s, i + 1, <<>>)
       IN IF ~k.ok THEN ParseFail
          ELSE LET c == SkipWS(s, k.n)
               IN IF c > Len(s) \/ s[c] # ":" THEN ParseFail
                  ELSE LET r == ParseValue(s, SkipWS(s, c + 1))
                       IN IF ~r.ok THEN ParseFail
                          ELSE LET e == SkipWS(s, r.n)
                                   fs == Append(acc, <<k.v[2], r.v>>)
                               IN IF e > Len(s) THEN ParseFail
                                  ELSE IF s[e] = "}" THEN [ok |-> TRUE, v |-> JM(fs), n |-> e + 1]
                                  ELSE IF s[e] = "," THEN ParseMembers(s, SkipWS(s, e + 1), fs)
                                  ELSE ParseFail

\* Elements of an array from index i (at a value), acc the elements so far.
ParseElems(s, i, acc) ==
  LET r == ParseValue(s, i)
  IN IF ~r.ok THEN ParseFail
     ELSE LET e == SkipWS(s, r.n)
              es == Append(acc, r.v)
          IN IF e > Len(s) THEN ParseFail
             ELSE IF s[e] = "]" THEN [ok |-> TRUE, v |-> JA(es), n |-> e + 1]
             ELSE IF s[e] = "," THEN ParseElems(s, SkipWS(s, e + 1), es)
             ELSE ParseFail

\* json.Unmarshal(text, &v) with v an interface{}: [err, v].
JsonUnmarshal(s) ==
  LET r == ParseValue(s, SkipWS(s, 1))
  IN IF r.ok /\ SkipWS(s, r.n) = Len(s) + 1
     THEN [err |-> FALSE, v |-> r.v]
     ELSE [err |-> TRUE, v |-> JNull]

\* json.Valid.
IsJSON(s) == ~JsonUnmarshal(s).err


(***************************************************************************)
(* Part Encoder: package streaming, StreamWriter.                          *)
(***************************************************************************)
PartTypeText == "0"
PartTypeData == "2"
PartTypeError == "3"
PartTypeAnnotation == "8"
PartTypeToolCall == "9"
PartTypeToolResult == "a"
PartTypeToolCallStart == "b"
PartTypeToolCallArgDelta == "c"
PartTypeFinishMessage == "d"
PartTypeFinishStep == "e"
PartTypeStart == "f"

PartTypes ==
  {PartTypeText, PartTypeData, PartTypeError, PartTypeAnnotation, PartTypeToolCall,
   PartTypeToolResult, PartTypeToolCallStart, PartTypeToolCallArgDelta,
   PartTypeFinishMessage, PartTypeFinishStep, PartTypeStart}

FinishReasonStop == <<"s", "t", "o", "p">>
FinishReasonLength == <<"l", "e", "n", "g", "t", "h">>
FinishReasonContentFilter == <<"c", "o", "n", "t", "e", "n", "t", "-", "f", "i", "l", "t", "e", "r">>
FinishReasonToolCalls == <<"t", "o", "o", "l", "-", "c", "a", "l", "l", "s">>
FinishReasonError == <<"e", "r", "r", "o", "r">>

\* Number of bytes a failing or short-writing sink accepts of one write
\* (TestWriteRawPartialWrite uses 5).
AcceptLen == 5

Min(a, b) == IF a < b THEN a ELSE b

\* How the sink may answer one Write call.
SinkBehaviours == {"ok", "short", "fail"}

\* http.ResponseWriter.Write(data) under behaviour o: the number of bytes
\* accepted and whether an error is reported.  "short" accepts fewer bytes
\* than requested without an error (partialWriter), "fail" accepts a prefix
\* and reports an error (failingWriter).
SinkWrite(data, o) ==
  CASE o = "ok"    -> [n |-> Len(data), err |-> FALSE]
    [] o = "short" -> [n |-> Min(AcceptLen, Len(data) - 1), err |-> FALSE]
    [] OTHER       -> [n |-> Min(AcceptLen, Len(data)), err |-> TRUE]

\* The outcome of a write* call that was rejected before reaching the sink.
Rejected(e) == [err |-> e, bytes |-> <<>>, wrote |-> FALSE, flushed |-> FALSE]

\* A variant of writeRaw that leaves the flushing to Close.
writeRaw_noFlush(data, o) ==
  LET w == SinkWrite(data, o)
  IN IF w.err
     THEN [err |-> "write failed", bytes |-> SubSeq(data, 1, w.n), wrote |-> TRUE, flushed |-> FALSE]
     ELSE IF w.n # Len(data)
     THEN [err |-> "partial write", bytes |-> SubSeq(data, 1, w.n), wrote |-> TRUE, flushed |-> FALSE]
     ELSE [err |-> "nil", bytes |-> data, wrote |-> TRUE, flushed |-> FALSE]

\* A variant of writeRaw without the n != len(data) check.
writeRaw_noLengthCheck(data, o) ==
  LET w == SinkWrite(data, o)
  IN IF w.err
     THEN [err |-> "write failed", bytes |-> SubSeq(data, 1, w.n), wrote |-> TRUE, flushed |-> FALSE]
     ELSE [err |-> "nil", bytes |-> SubSeq(data, 1, w.n), wrote |-> TRUE, flushed |-> TRUE]

\* StreamWriter.writeRaw: err is the error returned ("nil" for none), bytes
\* what the sink accepted, wrote whether the sink's Write was called,
\* flushed whether Flush was called.
writeRaw(data, o) ==
  LET w == SinkWrite(data, o)
  IN IF w.err
     THEN [err |-> "write failed", bytes |-> SubSeq(data, 1, w.n), wrote |-> TRUE, flushed |-> FALSE]
     ELSE IF w.n # Len(data)
     THEN [err |-> "partial write", bytes |-> SubSeq(data, 1, w.n), wrote |-> TRUE, flushed |-> FALSE]
     ELSE [err |-> "nil", bytes |-> data, wrote |-> TRUE, flushed |-> TRUE]

\* A variant of writePart that writes the type tag before it marshals.
writePart_tagFirst(partType, data, o) ==
  LET j == JsonMarshal(data)
  IN IF j.err
     THEN [err |-> "failed to marshal data", bytes |-> <<partType, ":">>, wrote |-> TRUE,
           flushed |-> FALSE]
     ELSE writeRaw(<<partType, ":">> \o j.data \o <<"\n">>, o)

\* A variant of writePart that leaves the type tag off the line.
writePart_untagged(partType, data, o) ==
  LET j == JsonMarshal(data)
  IN IF j.err THEN Rejected("failed to marshal data")
     ELSE writeRaw(j.data \o <<"\n">>, o)

\* StreamWriter.writePart: marshal, then write "<type>:<json>\n".
writePart(partType, data, o) ==
  LET j == JsonMarshal(data)
  IN IF j.err THEN Rejected("failed to marshal data")
     ELSE writeRaw(<<partType, ":">> \o j.data \o <<"\n">>, o)

\* Usage is a triple <<prompt, completion, total>>; <<>> is a nil *Usage.
UsageData(u) ==
  JO(<<<<Key.promptTokens, JN(u[1])>>, <<Key.completionTokens, JN(u[2])>>, <<Key.totalTokens, JN(u[3])>>>>)

StartData(messageID) == JO(<<<<Key.messageId, JS(messageID)>>>>)

\* FinishStepData with its omitempty fields.
FinishStepData(reason, usage, isContinued) ==
  JO(<<<<Key.finishReason, JS(reason)>>>>
     \o (IF usage # <<>> THEN <<<<Key.usage, UsageData(usage)>>>> ELSE <<>>)
     \o (IF isContinued THEN <<<<Key.isContinued, JB(TRUE)>>>> ELSE <<>>))

\* A variant of FinishMessageData that always reports stop.
FinishMessageData_stop(reason, usage) ==
  JO(<<<<Key.finishReason, JS(FinishReasonStop)>>>>
     \o (IF usage # <<>> THEN <<<<Key.usage, UsageData(usage)>>>> ELSE <<>>))

FinishMessageData(reason, usage) ==
  JO(<<<<Key.finishReason, JS(reason)>>>>
     \o (IF usage # <<>> THEN <<<<Key.usage, UsageData(usage)>>>> ELSE <<>>))

ToolCallData(toolCallID, toolName, args) ==
  JO(<<<<Key.toolCallId, JS(toolCallID)>>, <<Key.toolName, JS(toolName)>>, <<Key.args, args>>>>)

ToolResultData(toolCallID, result) ==
  JO(<<<<Key.toolCallId, JS(toolCallID)>>, <<Key.result, result>>>>)

ToolCallStartData(toolCallID, toolName) ==
  JO(<<<<Key.toolCallId, JS(toolCallID)>>, <<Key.toolName, JS(toolName)>>>>)

ToolCallArgDeltaData(toolCallID, argsDelta) ==
  JO(<<<<Key.toolCallId, JS(toolCallID)>>, <<Key.argsTextDelta, JS(argsDelta)>>>>)

WriteStart(messageID, o) ==
  IF messageID = <<>> THEN Rejected("ErrEmptyMessageID")
  ELSE writePart(PartTypeStart, StartData(messageID), o)

WriteText(text, o) == writePart(PartTypeText, JS(text), o)

WriteData(data, o) == writePart(PartTypeData, JA(data), o)

WriteError(message, o) == writePart(PartTypeError, JS(message), o)

WriteAnnotation(annotation, o) == writePart(PartTypeAnnotation, JA(<<annotation>>), o)

WriteToolCall(toolCallID, toolName, args, o) ==
  IF toolCallID = <<>> THEN Rejected("ErrEmptyToolCallID")
  ELSE IF toolName = <<>> THEN Rejected("ErrEmptyToolName")
  ELSE writePart(PartTypeToolCall, ToolCallData(toolCallID, toolName, args), o)

\* A variant of WriteToolResult without the empty-id check.
WriteToolResult_unchecked(toolCallID, result, o) ==
  writePart(PartTypeToolResult, ToolResultData(toolCallID, result), o)

WriteToolResult(toolCallID, result, o) ==
  IF toolCallID = <<>> THEN Rejected("ErrEmptyToolCallID")
  ELSE writePart(PartTypeToolResult, ToolResultData(toolCallID, result), o)

WriteToolCallStart(toolCallID, toolName, o) ==
  IF toolCallID = <<>> THEN Rejected("ErrEmptyToolCallID")
  ELSE IF toolName = <<>> THEN Rejected("ErrEmptyToolName")
  ELSE writePart(PartTypeToolCallStart, ToolCallStartData(toolCallID, toolName), o)

WriteToolCallArgDelta(toolCallID, argsDelta, o) ==
  IF toolCallID = <<>> THEN Rejected("ErrEmptyToolCallID")
  ELSE writePart(PartTypeToolCallArgDelta, ToolCallArgDeltaData(toolCallID, argsDelta), o)

WriteFinishStep(reason, usage, isContinued, o) ==
  writePart(PartTypeFinishStep, FinishStepData(reason, usage, isContinued), o)

WriteFinishMessage(reason, usage, o) ==
  writePart(PartTypeFinishMessage, FinishMessageData(reason, usage), o)


(***************************************************************************)
(* String values used by the model.                                        *)
(***************************************************************************)
\* uuid.New().String() of the turn and the id of the stored user message
MessageID == <<"m", "1">>
UserMessageID == <<"u", "1">>

\* Values carried by provider deltas: tool-call ids, tool names, the call
\* type, argument fragments ( {"loc":  "SF"}  {} ) and text fragments (Hi,
\* and a quote followed by a newline).
Val ==
  [c1 |-> <<"c", "1">>,
   c2 |-> <<"c", "2">>,
   get_weather |-> <<"g", "e", "t", "_", "w", "e", "a", "t", "h", "e", "r">>,
   get_time |-> <<"g", "e", "t", "_", "t", "i", "m", "e">>,
   function |-> <<"f", "u", "n", "c", "t", "i", "o", "n">>,
   loc |-> <<"{", "\"", "l", "o", "c", "\"", ":">>,
   SF |-> <<"\"", "S", "F", "\"", "}">>,
   empty |-> <<"{", "}">>,
   Hi |-> <<"H", "i">>,
   special |-> <<"\"", "\n">>,
   mixed |-> <<"\t", "é", "<", "\\">>]

\* Provider finish reasons (openai.FinishReason) and one it does not define.
ProviderFinish ==
  [stop |-> <<"s", "t", "o", "p">>,
   length |-> <<"l", "e", "n", "g", "t", "h">>,
   tool_calls |-> <<"t", "o", "o", "l", "_", "c", "a", "l", "l", "s">>,
   content_filter |-> <<"c", "o", "n", "t", "e", "n", "t", "_", "f", "i", "l", "t", "e", "r">>,
   error |-> <<"e", "r", "r", "o", "r">>,
   eos |-> <<"e", "o", "s">>]

\* Error texts and tool result messages.
Msg ==
  [unknown_tool |-> <<"u", "n", "k", "n", "o", "w", "n", " ", "t", "o", "o", "l", ":", " ">>,
   ok |-> <<"o", "k">>,
   bad |-> <<"b", "a", "d">>,
   boom |-> <<"b", "o", "o", "m">>,
   failed_to_execute |-> <<"F", "a", "i", "l", "e", "d", " ", "t", "o", " ", "e", "x", "e", "c", "u", "t", "e", " ", "t", "o", "o", "l", ":", " ">>,
   streaming_not_supported |-> <<"S", "t", "r", "e", "a", "m", "i", "n", "g", " ", "n", "o", "t", " ", "s", "u", "p", "p", "o", "r", "t", "e", "d">>]

(***************************************************************************)
(* Bounds and program constants.                                           *)
(***************************************************************************)
\* Provider events, other than the one ending the turn, per turn.
MaxEvents == 2

\* Write calls made by the encoder's caller in EncSpec.
MaxCalls == 2

\* Events of a text-only turn long enough to fill the chunk channel.
MaxBurst == 11

\* Tool-call fragments received before the end of the turn in AccSpec.
MaxFrags == 3

\* Close calls made by the encoder's caller in EncSpec.
MaxCloses == 2

\* make(chan StreamChunk, 10)
ChanCap == 10

(***************************************************************************)
(* The provider transport: what stream.Recv() may return.                  *)
(***************************************************************************)
\* A nil *int Index of an openai.ToolCall.
NoIndex == -1

PTC(index, id, type, name, arguments) ==
  [Index |-> index, ID |-> id, Type |-> type, Name |-> name, Arguments |-> arguments]

\* Tool-call fragments of a provider delta (openai.ToolCall).
Frag ==
  [start |-> PTC(0, Val.c1, Val.function, Val.get_weather, <<>>),
   startArg |-> PTC(0, Val.c1, Val.function, Val.get_weather, Val.loc),
   arg1 |-> PTC(0, <<>>, <<>>, <<>>, Val.loc),
   arg2 |-> PTC(NoIndex, <<>>, <<>>, <<>>, Val.SF),
   idOnly |-> PTC(0, Val.c1, Val.function, <<>>, <<>>),
   nameOnly |-> PTC(0, <<>>, <<>>, Val.get_weather, <<>>),
   startArg1 |-> PTC(1, Val.c2, Val.function, Val.get_time, Val.empty),
   unindexed |-> PTC(NoIndex, Val.c2, Val.function, Val.get_time, Val.empty)]

\* A response carrying one choice.
Resp(content, toolCalls, finishReason) ==
  [kind |-> "resp", choices |-> TRUE, Content |-> content,
   ToolCalls |-> toolCalls, FinishReason |-> finishReason, Usage |-> <<>>]

\* A response with an empty Choices slice.
RespNoChoices ==
  [kind |-> "resp", choices |-> FALSE, Content |-> <<>>,
   ToolCalls |-> <<>>, FinishReason |-> <<>>, Usage |-> <<>>]

RecvEOF ==
  [kind |-> "eof", choices |-> FALSE, Content |-> <<>>,
   ToolCalls |-> <<>>, FinishReason |-> <<>>, Usage |-> <<>>]

RecvErr ==
  [kind |-> "err", choices |-> FALSE, Content |-> <<>>,
   ToolCalls |-> <<>>, FinishReason |-> <<>>, Usage |-> <<>>]

\* Events after which the turn goes on.
MidEvents ==
  {Resp(Val.special, <<>>, <<>>), RespNoChoices}
  \cup {Resp(<<>>, <<tc>>, <<>>) : tc \in {Frag.start, Frag.arg1, Frag.arg2}}
  \cup {Resp(<<>>, <<Frag.idOnly, Frag.nameOnly>>, <<>>),
        Resp(<<>>, <<Frag.startArg, Frag.startArg1>>, <<>>)}

\* Events that end the turn.
EndEvents ==
  {Resp(<<>>, <<>>, r) : r \in {ProviderFinish.stop, ProviderFinish.length, ProviderFinish.tool_calls, ProviderFinish.content_filter, ProviderFinish.eos}}
  \cup {[Resp(Val.Hi, <<>>, ProviderFinish.stop) EXCEPT !.Usage = <<5, 3, 8>>],
        Resp(<<>>, <<Frag.arg2>>, ProviderFinish.tool_calls), RecvEOF, RecvErr}

IsEnd(ev) == ev.kind # "resp" \/ (ev.choices /\ ev.FinishReason # <<>>)

(***************************************************************************)
(* State.                                                                  *)
(***************************************************************************)
VARIABLES
  \* the HTTP response sink (http.ResponseWriter)
  canFlush,        \* whether the sink implements http.Flusher
  sink,            \* the bytes the sink has accepted
  sinkWrites,      \* number of Write calls made on the sink
  sinkLast,        \* how the sink answered the last Write ("none" before any)
  flushes,         \* number of Flush calls made on the sink
  headers,         \* response headers set
  status,          \* status code written (0: none)
  \* the encoder
  sw,              \* "none" before NewStreamWriter, then "open" or "failed"
  lastErr,         \* the error returned by the last write* call
  parts,           \* history: the parts written successfully, in order
  lastCall,        \* the last write* call: part type, id, name, and the error
                   \* returned by the call before it
  calls,           \* number of write* calls made by the encoder's caller
  closes,          \* number of Close calls made on the encoder
  \* the request context
  cancelled,
  \* the provider transport
  recvLog,         \* history: the events Recv returned
  streamCloses,    \* number of stream.Close calls
  \* the accumulator goroutine
  apc, toolCalls, pending,
  \* the channel
  chunks, chClosed,
  \* the orchestrator (SendMessageStream from NewStreamWriter on)
  hpc, chunk, di, tj, streamedToolCalls, fullContent, saved, execLog,
  saveErr,         \* whether the persistence call failed ("none" before it)
  abortedAt        \* where a write error made the handler return ("none")

sinkVars == <<canFlush, sink, sinkWrites, sinkLast, flushes, headers, status>>
encVars == <<sw, lastErr, parts, lastCall, calls, closes>>
accVars == <<recvLog, streamCloses, apc, toolCalls, pending>>
chanVars == <<chunks, chClosed>>
handlerVars ==
  <<hpc, chunk, di, tj, streamedToolCalls, fullContent, saved, saveErr, execLog, abortedAt>>
vars == <<sinkVars, encVars, cancelled, accVars, chanVars, handlerVars>>

\* The zero StreamChunk.
ZeroChunk ==
  [Content |-> <<>>, ToolCallDeltas |-> <<>>, ToolCalls |-> <<>>,
   Done |-> FALSE, FinishReason |-> <<>>, Usage |-> <<>>]

\* State when ChatService.SendMessageStream has returned the channel: the
\* accumulator goroutine has been started and nothing was written yet.
Init ==
  /\ canFlush \in BOOLEAN
  /\ sink = <<>> /\ sinkWrites = 0 /\ sinkLast = "none" /\ flushes = 0 /\ headers = {} /\ status = 0
  /\ sw = "none" /\ lastErr = "nil" /\ parts = <<>> /\ calls = 0 /\ closes = 0
  /\ lastCall = [op |-> "none", id |-> <<>>, name |-> <<>>, after |-> "nil"]
  /\ cancelled = FALSE
  /\ recvLog = <<>> /\ streamCloses = 0
  /\ apc = "recv" /\ toolCalls = <<>> /\ pending = ZeroChunk
  /\ chunks = <<>> /\ chClosed = FALSE
  /\ hpc = "new" /\ chunk = ZeroChunk /\ di = 1 /\ tj = 1
  /\ streamedToolCalls = {} /\ fullContent = <<>> /\ saved = <<>> /\ saveErr = "none" /\ execLog = <<>>
  /\ abortedAt = "none"

(***************************************************************************)
(* Delta Accumulator: the goroutine of LLMService.ChatStreamWithTools.     *)
(***************************************************************************)
\* The zero toolCallAccumulator.
ZeroAcc == [id |-> <<>>, toolType |-> <<>>, name |-> <<>>, arguments |-> <<>>]

\* idx := 0; if tc.Index != nil { idx = *tc.Index }
IndexOf(tc) == IF tc.Index = NoIndex THEN 0 ELSE tc.Index

\* A variant of UpdateAcc in which an argument fragment replaces the buffer.
UpdateAcc_overwrite(acc, tc) ==
  [id        |-> IF tc.ID # <<>> THEN tc.ID ELSE acc.id,
   toolType  |-> IF tc.Type # <<>> THEN tc.Type ELSE acc.toolType,
   name      |-> IF tc.Name # <<>> THEN tc.Name ELSE acc.name,
   arguments |-> IF tc.Arguments # <<>> THEN tc.Arguments ELSE acc.arguments]

\* The accumulator entry for one fragment: non-empty fields overwrite, the
\* argument fragment is appended.
UpdateAcc(acc, tc) ==
  [id        |-> IF tc.ID # <<>> THEN tc.ID ELSE acc.id,
   toolType  |-> IF tc.Type # <<>> THEN tc.Type ELSE acc.toolType,
   name      |-> IF tc.Name # <<>> THEN tc.Name ELSE acc.name,
   arguments |-> IF tc.Arguments # <<>> THEN acc.arguments \o tc.Arguments ELSE acc.arguments]

\* The toolCalls map after one fragment (an entry is created when missing).
AccumulateOne(m, tc) ==
  LET idx == IndexOf(tc)
      old == IF idx \in DOMAIN m THEN m[idx] ELSE ZeroAcc
  IN [i \in DOMAIN m \cup {idx} |-> IF i = idx THEN UpdateAcc(old, tc) ELSE m[i]]

RECURSIVE Accumulate(_, _)
\* The toolCalls map after the fragments of one delta, in order.
Accumulate(m, tcs) ==
  IF tcs = <<>> THEN m ELSE Accumulate(AccumulateOne(m, Head(tcs)), Tail(tcs))

\* The ToolCallDelta streamed to the client for one fragment.
\* A variant of DeltaOf that copies only the index and the argument fragment.
DeltaOf_argsOnly(tc) ==
  [Index |-> IndexOf(tc), ID |-> <<>>, Type |-> <<>>, Name |-> <<>>,
   ArgDelta |-> tc.Arguments]

DeltaOf(tc) ==
  [Index |-> IndexOf(tc), ID |-> tc.ID, Type |-> tc.Type, Name |-> tc.Name,
   ArgDelta |-> tc.Arguments]

DeltasOf(tcs) == [k \in 1..Len(tcs) |-> DeltaOf(tcs[k])]

\* The enumerations of a finite set: the orders in which a Go map may be
\* ranged over.
Orders(S) ==
  {f \in [1..Cardinality(S) -> S] : \A a, b \in 1..Cardinality(S) : a # b => f[a] # f[b]}

\* The ToolCall assembled from an accumulator entry.
ToolCallOf(acc) ==
  [ID |-> acc.id, Type |-> acc.toolType, Name |-> acc.name, Arguments |-> acc.arguments]

\* A variant of AssemblesToolCalls that assembles at every finish reason.
AssemblesToolCalls_always(finishReason) == TRUE

\* Whether the terminal chunk gets the assembled tool calls.
AssemblesToolCalls(finishReason) == finishReason = ProviderFinish.tool_calls

\* The chunk built for a response with a choice; order is the order in which
\* the toolCalls map m (already updated) is ranged over.
ChunkOf(ev, m, order) ==
  [Content        |-> ev.Content,
   ToolCallDeltas |-> DeltasOf(ev.ToolCalls),
   ToolCalls      |-> IF ev.FinishReason # <<>> /\ AssemblesToolCalls(ev.FinishReason)
                      THEN [k \in 1..Len(order) |-> ToolCallOf(m[order[k]])]
                      ELSE <<>>,
   Done           |-> ev.FinishReason # <<>>,
   FinishReason   |-> ev.FinishReason,
   Usage          |-> <<>>]

\* A variant of DoneChunk that leaves Done unset.
DoneChunk_notDone(reason) == [ZeroChunk EXCEPT !.FinishReason = reason]

\* StreamChunk{Done: true, FinishReason: reason}
DoneChunk(reason) == [ZeroChunk EXCEPT !.Done = TRUE, !.FinishReason = reason]

\* A variant of AccExit that releases the transport and leaves the channel
\* open.
AccExit_noClose ==
  /\ apc' = "exited"
  /\ streamCloses' = streamCloses + 1
  /\ chClosed' = chClosed

\* A variant of AccExit that closes the channel and keeps the transport.
AccExit_leak ==
  /\ apc' = "exited"
  /\ streamCloses' = streamCloses
  /\ chClosed' = TRUE

\* defer stream.Close(); defer close(chunks)
AccExit ==
  /\ apc' = "exited"
  /\ streamCloses' = streamCloses + 1
  /\ chClosed' = TRUE

\* The processing of what one Recv returned, up to the send.
Received(ev) ==
  /\ recvLog' = Append(recvLog, ev)
  /\ IF ev.kind = "eof" THEN
       /\ pending' = DoneChunk(ProviderFinish.stop) /\ apc' = "send" /\ UNCHANGED toolCalls
     ELSE IF ev.kind = "err" THEN
       /\ pending' = DoneChunk(ProviderFinish.error) /\ apc' = "send" /\ UNCHANGED toolCalls
     ELSE IF ~ev.choices THEN
       UNCHANGED <<pending, apc, toolCalls>>
     ELSE
       /\ toolCalls' = Accumulate(toolCalls, ev.ToolCalls)
       /\ \E order \in Orders(DOMAIN toolCalls') :
            pending' = ChunkOf(ev, toolCalls', order)
       /\ apc' = "send"
  /\ UNCHANGED <<streamCloses, chunks, chClosed, cancelled, sinkVars, encVars, handlerVars>>

\* One Recv and the processing of what it returned.
AccRecv ==
  /\ apc = "recv"
  /\ ~cancelled
  /\ \E ev \in MidEvents \cup EndEvents :
       /\ IsEnd(ev) \/ Len(recvLog) < MaxEvents
       /\ Received(ev)

\* The context is cancelled while the goroutine is blocked in Recv: Recv
\* returns an error.
AccRecvCancelled ==
  /\ apc = "recv"
  /\ cancelled
  /\ recvLog' = Append(recvLog, RecvErr)
  /\ pending' = DoneChunk(ProviderFinish.error)
  /\ apc' = "send"
  /\ UNCHANGED <<toolCalls, streamCloses, chunks, chClosed, cancelled, sinkVars, encVars, handlerVars>>

\* select { case <-ctx.Done(): return; default: } at the loop head.
AccCancelExit ==
  /\ apc = "recv"
  /\ cancelled
  /\ AccExit
  /\ UNCHANGED <<recvLog, toolCalls, pending, chunks, cancelled, sinkVars, encVars, handlerVars>>

\* A variant of AccSend that puts the chunk at the head of the channel.
AccSend_prepend ==
  /\ apc = "send"
  /\ Len(chunks) < ChanCap
  /\ chunks' = <<pending>> \o chunks
  /\ IF pending.Done
     THEN AccExit
     ELSE apc' = "recv" /\ UNCHANGED <<streamCloses, chClosed>>
  /\ UNCHANGED <<recvLog, toolCalls, pending, cancelled, sinkVars, encVars, handlerVars>>

\* A variant of AccSend for a channel without a capacity.
AccSend_unbounded ==
  /\ apc = "send"
  /\ chunks' = Append(chunks, pending)
  /\ IF pending.Done
     THEN AccExit
     ELSE apc' = "recv" /\ UNCHANGED <<streamCloses, chClosed>>
  /\ UNCHANGED <<recvLog, toolCalls, pending, cancelled, sinkVars, encVars, handlerVars>>

\* select: case chunks <- chunk.
AccSend ==
  /\ apc = "send"
  /\ Len(chunks) < ChanCap
  /\ chunks' = Append(chunks, pending)
  /\ IF pending.Done
     THEN AccExit
     ELSE apc' = "recv" /\ UNCHANGED <<streamCloses, chClosed>>
  /\ UNCHANGED <<recvLog, toolCalls, pending, cancelled, sinkVars, encVars, handlerVars>>

\* A variant of AccSendCancelled for a plain `chunks <- chunk`, which has no
\* case for the cancelled context.
AccSendCancelled_blocked ==
  /\ FALSE
  /\ UNCHANGED vars

\* select: case <-ctx.Done().
AccSendCancelled ==
  /\ apc = "send"
  /\ cancelled
  /\ AccExit
  /\ UNCHANGED <<recvLog, toolCalls, pending, chunks, cancelled, sinkVars, encVars, handlerVars>>

\* The request context is cancelled (the client went away).
Cancel ==
  /\ ~cancelled
  /\ hpc # "returned"
  /\ cancelled' = TRUE
  /\ UNCHANGED <<sinkVars, encVars, accVars, chanVars, handlerVars>>


(***************************************************************************)
(* Tool Execution Gateway: ToolExecutor.ExecuteToolCall over the registry. *)
(***************************************************************************)
\* Names with a registered handler.
RegisteredTools == {Val.get_weather}

\* What a registered handler may return: a successful ToolResult, a
\* ToolResult with Success=false, or an error.
HandlerOutcomes == {"ok", "failed", "err"}

ToolResultRec(success, message, error) ==
  [Success |-> success, Message |-> message, Error |-> error]

\* ToolRegistry.Execute: [err, result]; err is <<>> for nil.
RegistryExecute(toolName, h) ==
  IF toolName \notin RegisteredTools
  THEN [err |-> <<>>, result |-> ToolResultRec(FALSE, <<>>, Msg.unknown_tool \o toolName)]
  ELSE CASE h = "ok"     -> [err |-> <<>>, result |-> ToolResultRec(TRUE, Msg.ok, <<>>)]
         [] h = "failed" -> [err |-> <<>>, result |-> ToolResultRec(FALSE, <<>>, Msg.bad)]
         [] OTHER        -> [err |-> Msg.boom, result |-> ToolResultRec(FALSE, <<>>, <<>>)]

\* A variant of ExecuteTool that hands the registry's error to its caller.
ExecuteTool_propagate(toolName, arguments, h) ==
  LET x == RegistryExecute(toolName, h)
  IN [err |-> x.err, Success |-> x.result.Success, hasResult |-> x.err = <<>>,
      Result |-> x.result, Error |-> x.result.Error]

\* A variant of ExecuteTool that reports every execution as a success.
ExecuteTool_successAlways(toolName, arguments, h) ==
  LET x == RegistryExecute(toolName, h)
  IN [err |-> <<>>, Success |-> TRUE, hasResult |-> TRUE, Result |-> x.result,
      Error |-> <<>>]

\* ToolExecutor.ExecuteTool: [err, Success, hasResult, Result, Error].
ExecuteTool(toolName, arguments, h) ==
  LET x == RegistryExecute(toolName, h)
  IN IF x.err # <<>>
     THEN [err |-> <<>>, Success |-> FALSE, hasResult |-> FALSE,
           Result |-> x.result, Error |-> x.err]
     ELSE [err |-> <<>>, Success |-> x.result.Success, hasResult |-> TRUE,
           Result |-> x.result, Error |-> x.result.Error]

ExecuteToolCall(tc, h) == ExecuteTool(tc.Name, tc.Arguments, h)

\* services.ToolResult as JSON (omitempty on message, data, error).
ToolResultJSON(t) ==
  JO(<<<<Key.success, JB(t.Success)>>>>
     \o (IF t.Message # <<>> THEN <<<<Key.message, JS(t.Message)>>>> ELSE <<>>)
     \o (IF t.Error # <<>> THEN <<<<Key.error, JS(t.Error)>>>> ELSE <<>>))

\* services.ToolExecutionResult as JSON (omitempty on result, error).
ToolExecutionResultJSON(e) ==
  JO(<<<<Key.success, JB(e.Success)>>>>
     \o (IF e.hasResult THEN <<<<Key.result, ToolResultJSON(e.Result)>>>> ELSE <<>>)
     \o (IF e.Error # <<>> THEN <<<<Key.error, JS(e.Error)>>>> ELSE <<>>))

(***************************************************************************)
(* Stream Orchestrator: ChatHandler.SendMessageStream.                     *)
(***************************************************************************)
\* A part as recorded in the history: the arguments of the write call, the
\* stream-position index of the delta it was written for (b and c parts;
\* NoIndex otherwise) and the line that reached the sink.
PartRec(tag, id, name, text, reason, cont) ==
  [tag |-> tag, id |-> id, name |-> name, text |-> text, reason |-> reason,
   cont |-> cont, usage |-> <<>>, idx |-> NoIndex, line |-> <<>>]

\* The effect of a write* call with outcome r on the sink and the encoder;
\* o is how the sink answered, had it been called.
Written(r, part, o) ==
  /\ sink' = sink \o r.bytes
  /\ sinkWrites' = sinkWrites + (IF r.wrote THEN 1 ELSE 0)
  /\ sinkLast' = IF r.wrote THEN o ELSE sinkLast
  /\ flushes' = flushes + (IF r.flushed THEN 1 ELSE 0)
  /\ lastErr' = r.err
  /\ lastCall' = [op |-> part.tag, id |-> part.id, name |-> part.name, after |-> lastErr]
  /\ parts' = IF r.err = "nil" THEN Append(parts, [part EXCEPT !.line = r.bytes]) ELSE parts
  /\ UNCHANGED <<canFlush, headers, status, sw, closes>>

\* A variant of AbortOnError that goes on after an error.
AbortOnError_never(err) == FALSE

\* `if err := sw.Write...(...); err != nil { return }`
AbortOnError(err) == err # "nil"

\* A variant of MapFinishReason that reports every unknown reason as stop.
MapFinishReason_default(fr) ==
  CASE fr = ProviderFinish.stop           -> FinishReasonStop
    [] fr = ProviderFinish.length         -> FinishReasonLength
    [] fr = ProviderFinish.tool_calls     -> FinishReasonToolCalls
    [] fr = ProviderFinish.content_filter -> FinishReasonContentFilter
    [] fr = ProviderFinish.error          -> FinishReasonError
    [] OTHER                  -> FinishReasonStop

\* The switch on chunk.FinishReason.
MapFinishReason(fr) ==
  CASE fr = ProviderFinish.stop           -> FinishReasonStop
    [] fr = ProviderFinish.length         -> FinishReasonLength
    [] fr = ProviderFinish.tool_calls     -> FinishReasonToolCalls
    [] fr = ProviderFinish.content_filter -> FinishReasonContentFilter
    [] fr = ProviderFinish.error          -> FinishReasonError
    [] OTHER                  -> IF fr # <<>> THEN fr ELSE FinishReasonStop

\* A variant of IsContinued that never continues.
IsContinued_never(finishReason) == FALSE

\* isContinued := finishReason == streaming.FinishReasonToolCalls
IsContinued(finishReason) == finishReason = FinishReasonToolCalls

\* Where the loop body goes after the tool calls, the deltas and the text
\* of chunk c.
AfterTools(c) == IF c.Done THEN "fstep" ELSE "loop"

\* A variant of AfterDeltas that never dispatches the completed tool calls.
AfterDeltas_skip(c) == AfterTools(c)

AfterDeltas(c) == IF c.ToolCalls # <<>> THEN "tcall" ELSE AfterTools(c)

AfterText(c) == IF c.ToolCallDeltas # <<>> THEN "delta" ELSE AfterDeltas(c)

\* One write* call made by the handler; on success the handler goes on at
\* next, on an error it returns (the deferred Close is still to run).
\* logOnly: the error is logged and the handler goes on.
HWrite(r, part, next, logOnly, o) ==
  /\ Written(r, part, o)
  /\ IF ~logOnly /\ AbortOnError(r.err)
     THEN hpc' = "closing" /\ abortedAt' = hpc
     ELSE hpc' = next /\ UNCHANGED abortedAt
  /\ UNCHANGED <<calls, cancelled>>

\* No write call is made in this step.
HNoWrite(next) ==
  /\ hpc' = next
  /\ UNCHANGED <<sinkVars, encVars, cancelled, abortedAt>>

\* The headers of the data stream protocol.
StreamHeaders ==
  {<<"Content-Type", "text/plain; charset=utf-8">>,
   <<"Cache-Control", "no-cache">>,
   <<"Connection", "keep-alive">>,
   <<"X-Vercel-AI-Data-Stream", "v1">>}

\* A variant of NewStreamWriter that sets the headers and the status before
\* it looks for the flusher.
NewStreamWriter_headersFirst(flusher) ==
  [ok |-> flusher, headers |-> StreamHeaders, status |-> 200]

\* streaming.NewStreamWriter(w): the headers and status of a stream, or a
\* failure when the sink cannot flush.
NewStreamWriter(flusher) ==
  IF ~flusher
  THEN [ok |-> FALSE, headers |-> {}, status |-> 0]
  ELSE [ok |-> TRUE, headers |-> StreamHeaders, status |-> 200]

\* sw, err := streaming.NewStreamWriter(w); on an error
\* writeError(w, 500, "Streaming not supported") and return.
HNew ==
  /\ hpc = "new"
  /\ LET n == NewStreamWriter(canFlush)
     IN IF n.ok
        THEN /\ headers' = n.headers
             /\ status' = n.status
             /\ sw' = "open"
             /\ hpc' = "start"
             /\ UNCHANGED <<sink, sinkWrites, sinkLast, cancelled>>
        ELSE /\ headers' = {<<"Content-Type", "application/json">>}
             /\ status' = 500
             /\ sw' = "failed"
             /\ \E o \in SinkBehaviours :
                  LET body == Encode(JO(<<<<Key.error, JS(Msg.streaming_not_supported)>>>>)) \o <<"\n">>
                  IN /\ sink' = sink \o SubSeq(body, 1, SinkWrite(body, o).n)
                     /\ sinkWrites' = sinkWrites + 1
                     /\ sinkLast' = o
             /\ hpc' = "returned"
             /\ cancelled' = TRUE
  /\ UNCHANGED <<canFlush, flushes, lastErr, parts, lastCall, calls, closes, accVars, chanVars,
                 chunk, di, tj, streamedToolCalls, fullContent, saved, saveErr, execLog, abortedAt>>

\* sw.WriteStart(messageID)
HStart ==
  /\ hpc = "start"
  /\ \E o \in SinkBehaviours :
       HWrite(WriteStart(MessageID, o),
              PartRec(PartTypeStart, MessageID, <<>>, <<>>, <<>>, FALSE), "loop", FALSE, o)
  /\ UNCHANGED <<accVars, chanVars, chunk, di, tj, streamedToolCalls, fullContent, saved, saveErr, execLog>>

\* A variant of WritesText that writes a text part for every chunk.
WritesText_always(c) == TRUE

\* if chunk.Content != ""
WritesText(c) == c.Content # <<>>

\* `for chunk := range chunks` receives a chunk; its text is written.
HRecv ==
  /\ hpc = "loop"
  /\ chunks # <<>>
  /\ chunk' = Head(chunks)
  /\ chunks' = Tail(chunks)
  /\ di' = 1 /\ tj' = 1
  /\ IF WritesText(chunk')
     THEN /\ fullContent' = fullContent \o chunk'.Content
          /\ \E o \in SinkBehaviours :
               HWrite(WriteText(chunk'.Content, o),
                      PartRec(PartTypeText, <<>>, <<>>, chunk'.Content, <<>>, FALSE),
                      AfterText(chunk'), FALSE, o)
     ELSE /\ HNoWrite(AfterText(chunk'))
          /\ UNCHANGED fullContent
  /\ UNCHANGED <<accVars, chClosed, streamedToolCalls, saved, saveErr, execLog>>

\* A variant of HChanClosed that returns when the channel is closed.
HChanClosed_return ==
  /\ hpc = "loop"
  /\ chunks = <<>>
  /\ chClosed
  /\ HNoWrite("closing")
  /\ UNCHANGED <<accVars, chanVars, chunk, di, tj, streamedToolCalls, fullContent, saved, saveErr, execLog>>

\* `for chunk := range chunks` ends: the channel is closed and drained.
HChanClosed ==
  /\ hpc = "loop"
  /\ chunks = <<>>
  /\ chClosed
  /\ HNoWrite("save")
  /\ UNCHANGED <<accVars, chanVars, chunk, di, tj, streamedToolCalls, fullContent, saved, saveErr, execLog>>

\* Whether the start part of a delta is due:
\* delta.ID != "" && delta.Name != "" && !streamedToolCalls[delta.Index]
StartsToolCall(delta, streamed) ==
  delta.ID # <<>> /\ delta.Name # <<>> /\ delta.Index \notin streamed

\* The id passed to WriteToolCallArgDelta for a delta.
ArgDeltaID(delta) == delta.ID

\* One tool-call delta of the chunk: its start part, when due.
HDelta ==
  /\ hpc = "delta"
  /\ LET delta == chunk.ToolCallDeltas[di]
         last  == di = Len(chunk.ToolCallDeltas)
         next  == IF delta.ArgDelta # <<>> THEN "darg"
                  ELSE IF last THEN AfterDeltas(chunk) ELSE "delta"
     IN /\ di' = IF delta.ArgDelta # <<>> THEN di ELSE di + 1
        /\ IF StartsToolCall(delta, streamedToolCalls)
           THEN /\ streamedToolCalls' = streamedToolCalls \cup {delta.Index}
                /\ \E o \in SinkBehaviours :
                     HWrite(WriteToolCallStart(delta.ID, delta.Name, o),
                            [PartRec(PartTypeToolCallStart, delta.ID, delta.Name, <<>>, <<>>, FALSE)
                               EXCEPT !.idx = delta.Index],
                            next, FALSE, o)
           ELSE /\ HNoWrite(next)
                /\ UNCHANGED streamedToolCalls
  /\ UNCHANGED <<accVars, chanVars, chunk, tj, fullContent, saved, saveErr, execLog>>

\* The argument delta part of the current tool-call delta.
HDeltaArg ==
  /\ hpc = "darg"
  /\ LET delta == chunk.ToolCallDeltas[di]
         last  == di = Len(chunk.ToolCallDeltas)
     IN /\ di' = di + 1
        /\ \E o \in SinkBehaviours :
             HWrite(WriteToolCallArgDelta(ArgDeltaID(delta), delta.ArgDelta, o),
                    [PartRec(PartTypeToolCallArgDelta, ArgDeltaID(delta), <<>>, delta.ArgDelta, <<>>, FALSE)
                       EXCEPT !.idx = delta.Index],
                    IF last THEN AfterDeltas(chunk) ELSE "delta", FALSE, o)
  /\ UNCHANGED <<accVars, chanVars, chunk, tj, streamedToolCalls, fullContent, saved, saveErr, execLog>>

\* A variant of ParsedArgs without the fallback to the raw string.
ParsedArgs_strict(arguments) == JsonUnmarshal(arguments).v

\* The args value of the tool-call part: the parsed arguments, or the raw
\* string when they do not parse.
ParsedArgs(arguments) ==
  LET u == JsonUnmarshal(arguments)
  IN IF u.err THEN JS(arguments) ELSE u.v

\* sw.WriteToolCall for the current completed tool call.
HToolCall ==
  /\ hpc = "tcall"
  /\ LET tc == chunk.ToolCalls[tj]
     IN \E o \in SinkBehaviours :
          HWrite(WriteToolCall(tc.ID, tc.Name, ParsedArgs(tc.Arguments), o),
                 PartRec(PartTypeToolCall, tc.ID, tc.Name, tc.Arguments, <<>>, FALSE),
                 "texec", FALSE, o)
  /\ UNCHANGED <<accVars, chanVars, chunk, di, tj, streamedToolCalls, fullContent, saved, saveErr, execLog>>

\* The value written as the result of a tool execution e.
ResultValue(e) ==
  IF e.err # <<>>
  THEN JM(<<<<Key.success, JB(FALSE)>>, <<Key.error, JS(Msg.failed_to_execute \o e.err)>>>>)
  ELSE ToolExecutionResultJSON(e)

\* The tool is executed and its result written.
HToolResult ==
  /\ hpc = "texec"
  /\ LET tc   == chunk.ToolCalls[tj]
         next == IF tj < Len(chunk.ToolCalls) THEN "tcall" ELSE AfterTools(chunk)
     IN \E h \in HandlerOutcomes, o \in SinkBehaviours :
          LET e == ExecuteToolCall(tc, h)
          IN /\ execLog' = Append(execLog, [name |-> tc.Name, arguments |-> tc.Arguments,
                                            outcome |-> h, success |-> e.Success])
             /\ HWrite(WriteToolResult(tc.ID, ResultValue(e), o),
                       PartRec(PartTypeToolResult, tc.ID, <<>>, <<>>, <<>>, e.Success),
                       next, FALSE, o)
  /\ tj' = tj + 1
  /\ UNCHANGED <<accVars, chanVars, chunk, di, streamedToolCalls, fullContent, saved, saveErr>>

\* A variant of AfterFinishStep that never writes the finish-message.
AfterFinishStep_skip(isContinued) == "save"

\* `if !isContinued { sw.WriteFinishMessage(...) }; break`
AfterFinishStep(isContinued) == IF isContinued THEN "save" ELSE "fmsg"

\* sw.WriteFinishStep for the terminal chunk.
HFinishStep ==
  /\ hpc = "fstep"
  /\ LET finishReason == MapFinishReason(chunk.FinishReason)
         isContinued  == IsContinued(finishReason)
     IN \E o \in SinkBehaviours :
          HWrite(WriteFinishStep(finishReason, chunk.Usage, isContinued, o),
                 [PartRec(PartTypeFinishStep, <<>>, <<>>, <<>>, finishReason, isContinued)
                    EXCEPT !.usage = chunk.Usage],
                 AfterFinishStep(isContinued), FALSE, o)
  /\ UNCHANGED <<accVars, chanVars, chunk, di, tj, streamedToolCalls, fullContent, saved, saveErr, execLog>>

\* sw.WriteFinishMessage, when the step is not continued; then `break`.
HFinishMessage ==
  /\ hpc = "fmsg"
  /\ LET finishReason == MapFinishReason(chunk.FinishReason)
     IN \E o \in SinkBehaviours :
          HWrite(WriteFinishMessage(finishReason, chunk.Usage, o),
                 [PartRec(PartTypeFinishMessage, <<>>, <<>>, <<>>, finishReason, FALSE)
                    EXCEPT !.usage = chunk.Usage],
                 "save", FALSE, o)
  /\ UNCHANGED <<accVars, chanVars, chunk, di, tj, streamedToolCalls, fullContent, saved, saveErr, execLog>>

\* What h.chatService.SaveStreamedResponse may return: nil or an error of
\* SaveMessage.
SaveOutcomes == {"nil", "err"}

\* A variant of AfterSave that returns when the response cannot be saved.
AfterSave_abort(err) == IF err = "nil" THEN "annot" ELSE "closing"

\* `if _, err := ...SaveStreamedResponse(...); err != nil { logging.Error(...) }`
\* the error is logged and the handler goes on to the annotation.
AfterSave(err) == "annot"

\* h.chatService.SaveStreamedResponse(ctx, sessionID, fullContent.String());
\* its error is logged only.
HSave ==
  /\ hpc = "save"
  /\ saved' = Append(saved, fullContent)
  /\ \E err \in SaveOutcomes :
       /\ saveErr' = err
       /\ HNoWrite(AfterSave(err))
  /\ UNCHANGED <<accVars, chanVars, chunk, di, tj, streamedToolCalls, fullContent, execLog>>

\* A variant of AnnotationValue whose messageId is not the turn's.
AnnotationValue_otherId ==
  JM(<<<<Key.userMessageId, JS(UserMessageID)>>, <<Key.messageId, JS(UserMessageID)>>>>)

\* The annotation value: map[string]string{userMessageId, messageId}.
AnnotationValue ==
  JM(<<<<Key.userMessageId, JS(UserMessageID)>>, <<Key.messageId, JS(MessageID)>>>>)

\* The outcome of sw.WriteAnnotation for the annotation value, for each way
\* the sink may answer.
AnnotationWritten == [o \in SinkBehaviours |-> WriteAnnotation(AnnotationValue, o)]

\* sw.WriteAnnotation(...); its error is logged only; the handler returns.
HAnnotation ==
  /\ hpc = "annot"
  /\ \E o \in SinkBehaviours :
       HWrite(AnnotationWritten[o],
              PartRec(PartTypeAnnotation, MessageID, <<>>, UserMessageID, <<>>, FALSE),
              "closing", TRUE, o)
  /\ UNCHANGED <<accVars, chanVars, chunk, di, tj, streamedToolCalls, fullContent, saved, saveErr, execLog>>

\* A variant of Close that ends the stream with an empty line.
Close_terminator == [bytes |-> <<"\n">>, flushed |-> TRUE]

\* StreamWriter.Close: what it appends to the sink (nothing) and whether it
\* flushes.  It returns no value and keeps no state.
Close == [bytes |-> <<>>, flushed |-> TRUE]

\* The effect of one Close call on the sink and the encoder.
Closed ==
  /\ sink' = sink \o Close.bytes
  /\ flushes' = flushes + (IF Close.flushed THEN 1 ELSE 0)
  /\ closes' = closes + 1
  /\ UNCHANGED <<canFlush, sinkWrites, sinkLast, headers, status, sw, lastErr, parts,
                 lastCall, calls>>

\* A variant of HClose after which the request context stays live.
HClose_keepContext ==
  /\ hpc = "closing"
  /\ Closed
  /\ hpc' = "returned"
  /\ UNCHANGED <<cancelled, accVars, chanVars, chunk, di, tj, streamedToolCalls, fullContent,
                 saved, saveErr, execLog, abortedAt>>

\* The deferred sw.Close() runs and the handler returns; net/http then
\* cancels the request context.
HClose ==
  /\ hpc = "closing"
  /\ Closed
  /\ hpc' = "returned"
  /\ cancelled' = TRUE
  /\ UNCHANGED <<accVars, chanVars, chunk, di, tj, streamedToolCalls, fullContent, saved, saveErr,
                 execLog, abortedAt>>

Next ==
  \/ AccRecv \/ AccRecvCancelled \/ AccCancelExit \/ AccSend \/ AccSendCancelled
  \/ Cancel
  \/ HNew \/ HStart \/ HRecv \/ HChanClosed \/ HDelta \/ HDeltaArg
  \/ HToolCall \/ HToolResult \/ HFinishStep \/ HFinishMessage \/ HSave \/ HAnnotation
  \/ HClose

\* One streamed turn: the accumulator, the orchestrator and the context.
Spec == Init /\ [][Next]_vars

(***************************************************************************)
(* The encoder on its own: a caller makes up to MaxCalls write* calls with *)
(* arguments drawn from small sets, on a sink that may fail at any write.  *)
(***************************************************************************)
EncIDs == {<<>>, Val.c1}
EncNames == {<<>>, Val.get_weather}
EncTexts == {<<>>, Val.Hi, Val.special, Val.mixed}
EncUsages == {<<>>, <<5, 3, 8>>}

\* Payload values a caller may pass as interface{}.
EncValue(kind) ==
  CASE kind = "object" -> JM(<<<<Key.success, JB(TRUE)>>>>)
    [] kind = "string" -> JS(Val.loc)
    [] OTHER           -> JUnsupported

\* The effect of one write* call made by the caller.
EncCall(r, part, o) ==
  /\ sw = "open"
  /\ calls < MaxCalls
  /\ calls' = calls + 1
  /\ Written(r, part, o)
  /\ UNCHANGED <<cancelled, accVars, chanVars, handlerVars>>

EncNew ==
  /\ sw = "none"
  /\ LET n == NewStreamWriter(canFlush)
     IN /\ sw' = IF n.ok THEN "open" ELSE "failed"
        /\ headers' = n.headers
        /\ status' = n.status
  /\ UNCHANGED <<canFlush, sink, sinkWrites, sinkLast, flushes, lastErr, parts, lastCall,
                 calls, closes, cancelled, accVars, chanVars, handlerVars>>

EncWriteStart ==
  \E id \in {<<>>, MessageID}, o \in SinkBehaviours :
    EncCall(WriteStart(id, o), PartRec(PartTypeStart, id, <<>>, <<>>, <<>>, FALSE), o)

EncWriteText ==
  \E t \in EncTexts, o \in SinkBehaviours :
    EncCall(WriteText(t, o), PartRec(PartTypeText, <<>>, <<>>, t, <<>>, FALSE), o)

EncWriteData ==
  \E k \in {"object", "unsupported"}, o \in SinkBehaviours :
    EncCall(WriteData(<<EncValue(k)>>, o), PartRec(PartTypeData, <<>>, <<>>, <<>>, <<>>, FALSE), o)

EncWriteError ==
  \E o \in SinkBehaviours :
    EncCall(WriteError(Msg.boom, o), PartRec(PartTypeError, <<>>, <<>>, Msg.boom, <<>>, FALSE), o)

EncWriteAnnotation ==
  \E o \in SinkBehaviours :
    EncCall(WriteAnnotation(AnnotationValue, o),
            PartRec(PartTypeAnnotation, MessageID, <<>>, UserMessageID, <<>>, FALSE), o)

EncWriteToolCall ==
  \E id \in EncIDs, name \in EncNames, k \in {"object", "string", "unsupported"},
     o \in SinkBehaviours :
    EncCall(WriteToolCall(id, name, EncValue(k), o),
            PartRec(PartTypeToolCall, id, name, <<>>, <<>>, FALSE), o)

EncWriteToolResult ==
  \E id \in EncIDs, k \in {"object", "unsupported"}, o \in SinkBehaviours :
    EncCall(WriteToolResult(id, EncValue(k), o),
            PartRec(PartTypeToolResult, id, <<>>, <<>>, <<>>, FALSE), o)

EncWriteToolCallStart ==
  \E id \in EncIDs, name \in EncNames, o \in SinkBehaviours :
    EncCall(WriteToolCallStart(id, name, o),
            PartRec(PartTypeToolCallStart, id, name, <<>>, <<>>, FALSE), o)

EncWriteToolCallArgDelta ==
  \E id \in EncIDs, frag \in {<<>>, Val.loc}, o \in SinkBehaviours :
    EncCall(WriteToolCallArgDelta(id, frag, o),
            PartRec(PartTypeToolCallArgDelta, id, <<>>, frag, <<>>, FALSE), o)

EncWriteFinishStep ==
  \E reason \in {FinishReasonStop, FinishReasonToolCalls}, u \in EncUsages,
     o \in SinkBehaviours :
    EncCall(WriteFinishStep(reason, u, IsContinued(reason), o),
            [PartRec(PartTypeFinishStep, <<>>, <<>>, <<>>, reason, IsContinued(reason))
               EXCEPT !.usage = u], o)

EncWriteFinishMessage ==
  \E u \in EncUsages, o \in SinkBehaviours :
    EncCall(WriteFinishMessage(FinishReasonStop, u, o),
            [PartRec(PartTypeFinishMessage, <<>>, <<>>, <<>>, FinishReasonStop, FALSE)
               EXCEPT !.usage = u], o)

\* StreamWriter.Close, at any time after NewStreamWriter and any number of
\* times (up to MaxCloses).
EncClose ==
  /\ sw = "open"
  /\ closes < MaxCloses
  /\ Closed
  /\ UNCHANGED <<cancelled, accVars, chanVars, handlerVars>>

EncNext ==
  \/ EncNew \/ EncWriteStart \/ EncWriteText \/ EncWriteData \/ EncWriteError
  \/ EncWriteAnnotation \/ EncWriteToolCall \/ EncWriteToolResult
  \/ EncWriteToolCallStart \/ EncWriteToolCallArgDelta \/ EncWriteFinishStep
  \/ EncWriteFinishMessage \/ EncClose

\* The encoder driven directly by a caller.
EncSpec == Init /\ [][EncNext]_vars

(***************************************************************************)
(* A long text-only turn: the provider sends up to MaxBurst text events    *)
(* before it ends the turn, so that the accumulator can run ahead of the   *)
(* handler by more than the channel holds.  The goroutine and the handler  *)
(* are both scheduled as long as they can take a step.                     *)
(***************************************************************************)
\* One Recv of the long text-only turn.
BurstRecv ==
  /\ apc = "recv"
  /\ ~cancelled
  /\ \E ev \in {Resp(Val.Hi, <<>>, <<>>), Resp(<<>>, <<>>, ProviderFinish.stop), RecvErr} :
       /\ IsEnd(ev) \/ Len(recvLog) < MaxBurst
       /\ Received(ev)

\* The steps of the accumulator goroutine.
AccSteps == BurstRecv \/ AccRecvCancelled \/ AccCancelExit \/ AccSend \/ AccSendCancelled

\* The steps of the handler in a text-only turn.
HandlerSteps ==
  \/ HNew \/ HStart \/ HRecv \/ HChanClosed \/ HFinishStep \/ HFinishMessage
  \/ HSave \/ HAnnotation \/ HClose

LiveSpec ==
  Init /\ [][AccSteps \/ HandlerSteps \/ Cancel]_vars /\ WF_vars(AccSteps) /\ WF_vars(HandlerSteps)

(***************************************************************************)
(* The accumulator on its own: the provider sends up to MaxFrags responses *)
(* of one tool-call fragment each, with or without an index, an id, a name *)
(* and arguments, and then ends the turn; nobody reads the channel.        *)
(***************************************************************************)
\* One Recv of a turn made of tool-call fragments.
FragRecv ==
  /\ apc = "recv"
  /\ ~cancelled
  /\ \E ev \in {Resp(<<>>, <<f>>, <<>>) :
                   f \in {Frag.start, Frag.startArg, Frag.arg1, Frag.arg2, Frag.idOnly,
                          Frag.nameOnly, Frag.startArg1, Frag.unindexed}}
                \cup {Resp(<<>>, <<>>, ProviderFinish.tool_calls),
                      Resp(<<>>, <<>>, ProviderFinish.stop)} :
       /\ IsEnd(ev) \/ Len(recvLog) < MaxFrags
       /\ Received(ev)

AccSpec == Init /\ [][FragRecv \/ AccSend]_vars


(***************************************************************************)
(* Properties.                                                             *)
(***************************************************************************)
\* The JSON payload of a part line "<tag>:<json>\n", parsed.
PayloadOf(line) == JsonUnmarshal(SubSeq(line, 3, Len(line) - 1)).v

\* Field lookup in a parsed JSON object.
HasField(v, key) == \E i \in 1..Len(v[2]) : v[2][i][1] = key

FieldOf(v, key) == v[2][CHOOSE i \in 1..Len(v[2]) : v[2][i][1] = key][2]

\* Positions of the parts with a given tag in the history.
PartsTagged(tag) == {k \in 1..Len(parts) : parts[k].tag = tag}

\* The handler took a step of its loop body at position pc.
HandlerLeft(pc) == hpc = pc /\ hpc' # pc

\* The sink refused (failed or cut short) the write made in this step.
SinkRefused == sinkWrites' = sinkWrites + 1 /\ sinkLast' # "ok"

\* The id written in the start part of the tool call at index i.
StartedId(i) ==
  parts[CHOOSE k \in PartsTagged(PartTypeToolCallStart) : parts[k].idx = i].id

\* C1: for every tool-call index, a start part (b) is written exactly once,
\* at the first delta at which the index has a known id and name, and every
\* argument fragment of that index, also one arriving in a later delta that
\* carries no id, is written as an argument-delta part (c) carrying that
\* tool call's id, after which the turn goes on.
C1_ArgFragmentsCarryCallId ==
  [][/\ \A j, k \in PartsTagged(PartTypeToolCallStart) : parts[j].idx = parts[k].idx => j = k
     /\ (HandlerLeft("delta") /\ ~SinkRefused) =>
          LET delta == chunk.ToolCallDeltas[di]
          IN StartsToolCall(delta, streamedToolCalls) =>
               /\ Len(parts') = Len(parts) + 1
               /\ parts'[Len(parts')].tag = PartTypeToolCallStart
               /\ parts'[Len(parts')].idx = delta.Index
     /\ (HandlerLeft("darg") /\ ~SinkRefused) =>
          LET delta == chunk.ToolCallDeltas[di]
          IN delta.Index \in streamedToolCalls =>
               /\ Len(parts') = Len(parts) + 1
               /\ parts'[Len(parts')].tag = PartTypeToolCallArgDelta
               /\ parts'[Len(parts')].id = StartedId(delta.Index)
               /\ parts'[Len(parts')].text = delta.ArgDelta
               /\ hpc' # "closing"
    ]_vars

RECURSIVE FragmentsOf(_)
\* The tool-call fragments of a log of provider events, in arrival order.
FragmentsOf(log) ==
  IF log = <<>> THEN <<>> ELSE Head(log).ToolCalls \o FragmentsOf(Tail(log))

RECURSIVE ArgumentsAt(_, _)
\* The argument fragments for index i among frs, concatenated in order.
ArgumentsAt(frs, i) ==
  IF frs = <<>> THEN <<>>
  ELSE (IF IndexOf(Head(frs)) = i THEN Head(frs).Arguments ELSE <<>>)
       \o ArgumentsAt(Tail(frs), i)

\* The non-empty values a field takes among the fragments for index i.
Supplied(frs, i, field) ==
  {frs[k][field] : k \in {k \in 1..Len(frs) : IndexOf(frs[k]) = i /\ frs[k][field] # <<>>}}

\* tc is what the fragments frs say about index i.
AssembledFrom(tc, frs, i) ==
  /\ tc.Arguments = ArgumentsAt(frs, i)
  /\ IF Supplied(frs, i, "ID") = {} THEN tc.ID = <<>> ELSE tc.ID \in Supplied(frs, i, "ID")
  /\ IF Supplied(frs, i, "Name") = {} THEN tc.Name = <<>> ELSE tc.Name \in Supplied(frs, i, "Name")

\* The chunks in flight or in the handler's hands.
ChunksInFlight ==
  (IF apc = "send" THEN {pending} ELSE {})
  \cup {chunks[k] : k \in 1..Len(chunks)}
  \cup {chunk}

\* C2: the terminal chunk of a turn ending with finish reason tool_calls
\* holds exactly one ToolCall per distinct index seen, with the id and name
\* supplied for that index and, as arguments, the concatenation in arrival
\* order of the fragments of that index.
C2_TerminalToolCalls ==
  \A c \in ChunksInFlight :
    (c.Done /\ c.FinishReason = ProviderFinish.tool_calls) =>
      LET frs  == FragmentsOf(recvLog)
          seen == {IndexOf(frs[k]) : k \in 1..Len(frs)}
      IN /\ Len(c.ToolCalls) = Cardinality(seen)
         /\ \E order \in Orders(seen) :
              \A k \in 1..Len(order) : AssembledFrom(c.ToolCalls[k], frs, order[k])

\* C2 witness: the fragments {c1, get_weather}, {"loc": and "SF"} of index 0
\* are in the terminal chunk as one ToolCall.
C2_Witness ==
  /\ Len(recvLog) = 3
  /\ recvLog[1].ToolCalls = <<Frag.start>>
  /\ recvLog[2].ToolCalls = <<Frag.arg1>>
  /\ recvLog[3].ToolCalls = <<Frag.arg2>>
  /\ \E c \in ChunksInFlight :
       /\ c.Done
       /\ c.FinishReason = ProviderFinish.tool_calls
       /\ c.ToolCalls = <<[ID |-> Val.c1, Type |-> Val.function, Name |-> Val.get_weather,
                           Arguments |-> Val.loc \o Val.SF]>>

\* The handler has received the terminal chunk.
TerminalReceived == chunk.Done /\ hpc \notin {"new", "start"}

\* C3: when the terminal chunk's finish reason is tool-calls, the
\* finish-step part written has isContinued=true and no finish-message part
\* is written in the turn.
C3_ToolCallsContinue ==
  (TerminalReceived /\ MapFinishReason(chunk.FinishReason) = FinishReasonToolCalls) =>
    /\ PartsTagged(PartTypeFinishMessage) = {}
    /\ \A k \in PartsTagged(PartTypeFinishStep) :
         /\ parts[k].cont
         /\ HasField(PayloadOf(parts[k].line), Key.isContinued)
         /\ FieldOf(PayloadOf(parts[k].line), Key.isContinued) = JB(TRUE)
         /\ FieldOf(PayloadOf(parts[k].line), Key.finishReason) = JS(FinishReasonToolCalls)
    /\ (hpc \in {"save", "annot", "closing", "returned"} /\ abortedAt = "none") =>
         Cardinality(PartsTagged(PartTypeFinishStep)) = 1

\* C3 witness: a turn that ended with tool-calls has written its finish-step
\* and returned.
C3_Witness ==
  /\ hpc = "returned"
  /\ chunk.Done
  /\ chunk.FinishReason = ProviderFinish.tool_calls
  /\ abortedAt = "none"
  /\ PartsTagged(PartTypeFinishStep) # {}

\* C4: when the terminal chunk's finish reason is not tool-calls and the
\* writes succeed, the finish-step part has isContinued false or omitted and
\* exactly one finish-message part with the same reason follows it
\* immediately.
C4_FinishMessageFollows ==
  (/\ TerminalReceived
   /\ MapFinishReason(chunk.FinishReason) # FinishReasonToolCalls
   /\ hpc \in {"save", "annot", "closing", "returned"}
   /\ abortedAt = "none") =>
    \E k \in 1..Len(parts) - 1 :
      LET e == PayloadOf(parts[k].line)
          d == PayloadOf(parts[k + 1].line)
      IN /\ PartsTagged(PartTypeFinishStep) = {k}
         /\ PartsTagged(PartTypeFinishMessage) = {k + 1}
         /\ ~parts[k].cont
         /\ HasField(e, Key.isContinued) => FieldOf(e, Key.isContinued) = JB(FALSE)
         /\ FieldOf(e, Key.finishReason) = JS(MapFinishReason(chunk.FinishReason))
         /\ FieldOf(d, Key.finishReason) = FieldOf(e, Key.finishReason)

\* C4 witness: a turn that ended with length has written its finish-message
\* and returned.
C4_Witness ==
  /\ hpc = "returned"
  /\ chunk.Done
  /\ chunk.FinishReason = ProviderFinish.length
  /\ abortedAt = "none"
  /\ PartsTagged(PartTypeFinishMessage) # {}

\* The bytes s cut at each "\n": the complete lines (without their newline)
\* and what follows the last newline.
SplitLines(s) ==
  LET nl     == {i \in 1..Len(s) : s[i] = "\n"}
      Nth(k) == CHOOSE i \in nl : Cardinality({j \in nl : j < i}) = k - 1
      From(k) == IF k = 1 THEN 1 ELSE Nth(k - 1) + 1
  IN [lines |-> [k \in 1..Cardinality(nl) |-> SubSeq(s, From(k), Nth(k) - 1)],
      rest  |-> SubSeq(s, From(Cardinality(nl) + 1), Len(s))]

SinkLines == SplitLines(sink)

\* A line "<tag>:<json>" of the data stream protocol.
WellFormedLine(l) ==
  /\ Len(l) >= 3
  /\ l[1] \in PartTypes
  /\ l[2] = ":"
  /\ IsJSON(SubSeq(l, 3, Len(l)))

\* Line l is a part with the given tag and payload.
IsPart(l, tag, payload) ==
  /\ WellFormedLine(l)
  /\ l[1] = tag
  /\ JsonUnmarshal(SubSeq(l, 3, Len(l))).v = payload

RECURSIVE TextsOf(_)
\* The non-empty text deltas of a log of provider events, in order.
TextsOf(log) ==
  IF log = <<>> THEN <<>>
  ELSE (IF Head(log).Content # <<>> THEN <<Head(log).Content>> ELSE <<>>) \o TextsOf(Tail(log))

\* The provider streamed text only and completed with stop.
TextOnlyStop(log) ==
  /\ log # <<>>
  /\ \A k \in 1..Len(log) : log[k].ToolCalls = <<>>
  /\ log[Len(log)].kind = "eof" \/ log[Len(log)].FinishReason = ProviderFinish.stop

\* The turn ran to its end with every write accepted.
TurnCompleted ==
  /\ hpc = "returned"
  /\ sw = "open"
  /\ chunk.Done
  /\ abortedAt = "none"
  /\ lastErr = "nil"

\* C5: for a turn in which the provider streams text deltas and completes
\* with stop, every write succeeding, the sink holds exactly: the start part
\* with the messageId, one text part per non-empty delta in provider order,
\* the finish-step and the finish-message with reason stop, and last the
\* annotation with userMessageId and the same messageId.
C5_TextOnlyTurn ==
  (TurnCompleted /\ TextOnlyStop(recvLog)) =>
    LET ls    == SinkLines
        texts == TextsOf(recvLog)
        n     == Len(texts)
    IN /\ ls.rest = <<>>
       /\ Len(ls.lines) = n + 4
       /\ IsPart(ls.lines[1], PartTypeStart, JM(<<<<Key.messageId, JS(MessageID)>>>>))
       /\ \A k \in 1..n : IsPart(ls.lines[k + 1], PartTypeText, JS(texts[k]))
       /\ IsPart(ls.lines[n + 2], PartTypeFinishStep, JM(<<<<Key.finishReason, JS(FinishReasonStop)>>>>))
       /\ IsPart(ls.lines[n + 3], PartTypeFinishMessage, JM(<<<<Key.finishReason, JS(FinishReasonStop)>>>>))
       /\ \/ IsPart(ls.lines[n + 4], PartTypeAnnotation,
                    JA(<<JM(<<<<Key.messageId, JS(MessageID)>>, <<Key.userMessageId, JS(UserMessageID)>>>>)>>))
          \/ IsPart(ls.lines[n + 4], PartTypeAnnotation,
                    JA(<<JM(<<<<Key.userMessageId, JS(UserMessageID)>>, <<Key.messageId, JS(MessageID)>>>>)>>))

\* C5 witness: two text deltas, one of them with characters JSON escapes,
\* then stop, all written.
C5_Witness ==
  /\ TurnCompleted
  /\ TextOnlyStop(recvLog)
  /\ TextsOf(recvLog) = <<Val.special, Val.special, Val.Hi>>
  /\ Len(SinkLines.lines) = 7

\* C6: on every path of a streamed turn once the start part was attempted,
\* a part-write failure included, the handler persists the accumulated text
\* and writes the annotation part.
C6_AlwaysPersistsAndAnnotates ==
  (hpc = "returned" /\ sw = "open") =>
    /\ saved = <<fullContent>>
    /\ lastCall.op = PartTypeAnnotation

\* C7: once a write call of the encoder has returned an error, the handler
\* writes no further part in the turn, and the bytes the sink holds are left
\* as they are.
C7_NothingAfterWriteError ==
  [][/\ lastErr # "nil" =>
          /\ sink' = sink
          /\ sinkWrites' = sinkWrites
          /\ parts' = parts
          /\ lastCall' = lastCall
     /\ Len(sink') >= Len(sink) /\ SubSeq(sink', 1, Len(sink)) = sink
    ]_vars

\* C7 witness: a write failed after parts had been written, and the handler
\* has returned.
C7_Witness ==
  /\ hpc = "returned"
  /\ lastErr = "write failed"
  /\ Len(parts) >= 2
  /\ abortedAt = "loop"

\* C8: when the sink accepts fewer bytes than requested and reports no
\* error, the write call returns a partial-write error and does not flush,
\* and no further write is made to the sink in the turn.
C8_ShortWriteHalts ==
  [][sw = "open" =>
       /\ (sinkWrites' = sinkWrites + 1 /\ sinkLast' = "short") =>
            /\ lastErr' = "partial write"
            /\ flushes' = flushes
       /\ lastErr = "partial write" =>
            /\ sinkWrites' = sinkWrites
            /\ sink' = sink
    ]_vars

\* C8 witness: the sink took AcceptLen bytes of a text part; the handler
\* has returned with the partial-write error.
C8_Witness ==
  /\ hpc = "returned"
  /\ lastErr = "partial write"
  /\ sinkLast = "short"
  /\ abortedAt = "loop"
  /\ SinkLines.rest # <<>>
  /\ Len(SinkLines.rest) = AcceptLen

\* C9 as stated: in every reachable state the sink holds complete parts
\* only; no incomplete line is ever left on the wire.
C9_OnlyCompleteLines ==
  sw = "open" =>
    LET ls == SinkLines
    IN /\ ls.rest = <<>>
       /\ \A k \in 1..Len(ls.lines) : WellFormedLine(ls.lines[k])

\* C9, amended: the sink holds complete well-formed parts, followed, only
\* when the sink failed or cut short the last write, by the bytes it took of
\* one more part; nothing is written after such a truncated line.
C9_CompleteLinesThenTruncation ==
  [](sw = "open" =>
       LET ls == SinkLines
       IN /\ \A k \in 1..Len(ls.lines) : WellFormedLine(ls.lines[k])
          /\ ls.rest # <<>> =>
               /\ sinkLast \in {"short", "fail"}
               /\ lastErr \in {"partial write", "write failed"}
               /\ ls.rest[1] \in PartTypes)

\* C9 witness: a text part with a quote and a newline in it is on the wire
\* as one complete line, and a later part was cut short.
C9_Witness ==
  /\ sw = "open"
  /\ \E k \in 1..Len(parts) : parts[k].tag = PartTypeText /\ parts[k].text = Val.special
  /\ Len(SinkLines.lines) >= 2
  /\ SinkLines.rest # <<>>

\* The call made in this step left the sink alone.
SinkUntouched == sink' = sink /\ sinkWrites' = sinkWrites /\ flushes' = flushes

\* C10: WriteStart with an empty messageId, WriteToolCallStart and
\* WriteToolCall with an empty toolCallId or toolName (the id checked
\* first), and WriteToolResult and WriteToolCallArgDelta with an empty
\* toolCallId return the matching empty-field error; no byte is written and
\* no flush happens.
C10_EmptyFieldsRejected ==
  [][calls' = calls + 1 =>
       LET c == lastCall'
       IN /\ (c.op = PartTypeStart /\ c.id = <<>>) =>
               lastErr' = "ErrEmptyMessageID" /\ SinkUntouched
          /\ (c.op \in {PartTypeToolCallStart, PartTypeToolCall} /\ c.id = <<>>) =>
               lastErr' = "ErrEmptyToolCallID" /\ SinkUntouched
          /\ (c.op \in {PartTypeToolCallStart, PartTypeToolCall} /\ c.id # <<>> /\ c.name = <<>>) =>
               lastErr' = "ErrEmptyToolName" /\ SinkUntouched
          /\ (c.op \in {PartTypeToolResult, PartTypeToolCallArgDelta} /\ c.id = <<>>) =>
               lastErr' = "ErrEmptyToolCallID" /\ SinkUntouched
    ]_vars

\* C10 witness: after a part was written, WriteToolCall with an id and an
\* empty name was rejected.
C10_Witness ==
  /\ calls = 2
  /\ sink # <<>>
  /\ lastCall.op = PartTypeToolCall
  /\ lastCall.id # <<>>
  /\ lastCall.name = <<>>
  /\ lastErr = "ErrEmptyToolName"

\* The bytes a step appended to the sink.
Appended == SubSeq(sink', Len(sink) + 1, Len(sink'))

RECURSIVE LinesOf(_)
\* The lines of the successful calls, one after the other in call order.
LinesOf(ps) == IF ps = <<>> THEN <<>> ELSE Head(ps).line \o LinesOf(Tail(ps))

\* The sink returned an error or took fewer bytes than it was given.
RefusedBySink(e) == e \in {"write failed", "partial write"}

\* C12 as stated: after any sequence of write* calls the sink holds exactly
\* the lines of the successful calls, in call order, each starting with the
\* tag of its operation.
C12_SinkIsSuccessfulLines ==
  /\ sink = LinesOf(parts)
  /\ \A k \in 1..Len(parts) : parts[k].line[1] = parts[k].tag

\* C12, amended: every write* call appends at the end of the sink, before it
\* returns, and never touches earlier bytes: the whole line "<tag>:<json>\n"
\* of its operation when it succeeds, the bytes the sink took of that line
\* when the sink failed or cut the write short, nothing when the call was
\* rejected before reaching the sink.  While no write was refused by the
\* sink, the sink is exactly the lines of the successful calls in call order.
C12_AppendsInCallOrder ==
  [][calls' = calls + 1 =>
       LET a == Appended
       IN /\ sink' = sink \o a
          /\ lastErr' = "nil" =>
               /\ parts' = Append(parts, parts'[Len(parts')])
               /\ parts'[Len(parts')].tag = lastCall'.op
               /\ a = parts'[Len(parts')].line
               /\ a[Len(a)] = "\n"
               /\ WellFormedLine(SubSeq(a, 1, Len(a) - 1))
               /\ a[1] = lastCall'.op
          /\ RefusedBySink(lastErr') =>
               /\ parts' = parts
               /\ Len(a) <= AcceptLen
               /\ Len(a) >= 1 => a[1] = lastCall'.op
               /\ Len(a) >= 2 => a[2] = ":"
          /\ (lastErr' # "nil" /\ ~RefusedBySink(lastErr')) =>
               /\ parts' = parts
               /\ a = <<>>
          /\ sinkWrites' = Len(parts') => sink' = LinesOf(parts')
    ]_vars

\* C12 witness: the sink cut a write short, the next call succeeded, and its
\* line follows the bytes taken of the first.
C12_Witness ==
  /\ calls = 2
  /\ sinkWrites = 2
  /\ Len(parts) = 1
  /\ lastErr = "nil"
  /\ sink # LinesOf(parts)
  /\ Len(sink) = AcceptLen + Len(parts[1].line)
  /\ SubSeq(sink, AcceptLen + 1, Len(sink)) = parts[1].line

\* C13: a write* call that succeeds flushes the sink exactly once before it
\* returns, and a call that fails (empty field, marshalling error, sink
\* error, short write) does not flush; so the flushes caused by writes are
\* as many as the parts written.
C13_FlushPerSuccessfulWrite ==
  [][calls' = calls + 1 =>
       /\ lastErr' = "nil" => flushes' = flushes + 1 /\ Len(parts') = Len(parts) + 1
       /\ lastErr' # "nil" => flushes' = flushes /\ parts' = parts
       /\ flushes' - closes' = Len(parts')
    ]_vars

\* C13 witness: of two calls the first was written and flushed, the second
\* was cut short by the sink and not flushed.
C13_Witness ==
  /\ calls = 2
  /\ closes = 0
  /\ Len(parts) = 1
  /\ flushes = 1
  /\ sinkWrites = 2
  /\ lastErr = "partial write"

\* C14: NewStreamWriter on a sink that cannot flush returns an error and no
\* handle, and sets no header and no status; on a sink that can flush it
\* sets the four protocol headers and status 200 and returns a handle, all
\* before any part is written.
C14_NewStreamWriter ==
  /\ sw = "none" => headers = {} /\ status = 0 /\ sink = <<>> /\ calls = 0 /\ closes = 0
  /\ sw = "failed" =>
       /\ ~canFlush
       /\ headers = {} /\ status = 0
       /\ sink = <<>> /\ sinkWrites = 0 /\ flushes = 0
       /\ calls = 0 /\ closes = 0
  /\ sw = "open" =>
       /\ canFlush
       /\ headers = {<<"Content-Type", "text/plain; charset=utf-8">>,
                     <<"Cache-Control", "no-cache">>,
                     <<"Connection", "keep-alive">>,
                     <<"X-Vercel-AI-Data-Stream", "v1">>}
       /\ status = 200
  /\ (sink # <<>> \/ sinkWrites > 0) => sw = "open"

\* C14 witness: NewStreamWriter was called on a sink that cannot flush.
C14_Witness ==
  /\ ~canFlush
  /\ sw = "failed"
  /\ headers = {}
  /\ status = 0

\* C15: Close may be called any number of times after any sequence of
\* writes: each call returns without an error, appends no byte to the sink
\* and leaves the encoder as it was.
C15_CloseIdempotent ==
  [][closes' = closes + 1 =>
       /\ sink' = sink
       /\ sinkWrites' = sinkWrites
       /\ lastErr' = lastErr
       /\ parts' = parts
       /\ sw' = sw
       /\ <<headers', status'>> = <<headers, status>>
    ]_vars

\* C15 witness: Close was called twice after a part was written, and the
\* sink holds that part and nothing else.
C15_Witness ==
  /\ closes = 2
  /\ Len(parts) >= 1
  /\ sink = LinesOf(parts)
  /\ flushes = Len(parts) + 2

\* The position in the history of the k-th part with the given tag.
NthTagged(tag, k) ==
  CHOOSE p \in PartsTagged(tag) : Cardinality({q \in PartsTagged(tag) : q < p}) = k - 1

\* The gateway failed for the k-th executed tool call: the tool is not
\* registered, or its handler rejected the arguments or returned an error.
GatewayFailed(k) ==
  execLog[k].name \notin RegisteredTools \/ execLog[k].outcome # "ok"

\* C16: a gateway failure for a completed tool call (unknown tool, arguments
\* the handler rejects, handler error) never aborts the stream: a tool-result
\* part (a) with that call's id and success=false is written, the remaining
\* completed tool calls are dispatched, and the finish-step part is written.
\* Only the sink refusing a write ends the turn at a tool result.
C16_GatewayFailureInBand ==
  LET A == PartsTagged(PartTypeToolResult)
  IN /\ abortedAt = "texec" => RefusedBySink(lastErr)
     /\ Len(execLog) <= Len(chunk.ToolCalls)
     /\ Cardinality(A) = Len(execLog) - (IF abortedAt = "texec" THEN 1 ELSE 0)
     /\ \A k \in 1..Cardinality(A) :
          LET p == parts[NthTagged(PartTypeToolResult, k)]
              v == PayloadOf(p.line)
          IN /\ execLog[k].name = chunk.ToolCalls[k].Name
             /\ p.id = chunk.ToolCalls[k].ID
             /\ FieldOf(v, Key.toolCallId) = JS(chunk.ToolCalls[k].ID)
             /\ HasField(FieldOf(v, Key.result), Key.success)
             /\ FieldOf(FieldOf(v, Key.result), Key.success) = JB(~GatewayFailed(k))
             /\ GatewayFailed(k) => HasField(FieldOf(v, Key.result), Key.error)
     /\ (chunk.Done /\ abortedAt = "none"
         /\ hpc \in {"fmsg", "save", "annot", "closing", "returned"}) =>
          /\ Len(execLog) = Len(chunk.ToolCalls)
          /\ Cardinality(PartsTagged(PartTypeFinishStep)) = 1

\* C16 witness: of two completed tool calls one named an unknown tool and the
\* handler of the other returned an error; both got a tool-result part, the
\* finish-step part was written and the handler returned.
C16_Witness ==
  /\ hpc = "returned"
  /\ abortedAt = "none"
  /\ Len(execLog) = 2
  /\ \E k \in 1..2 : execLog[k].name = Val.get_time
  /\ \E k \in 1..2 : execLog[k].name = Val.get_weather /\ execLog[k].outcome = "err"
  /\ Cardinality(PartsTagged(PartTypeToolResult)) = 2
  /\ Cardinality(PartsTagged(PartTypeFinishStep)) = 1

\* The chunk the accumulator is to emit when the transport fails.
ErrorChunk ==
  [Content |-> <<>>, ToolCallDeltas |-> <<>>, ToolCalls |-> <<>>, Done |-> TRUE,
   FinishReason |-> <<"e", "r", "r", "o", "r">>, Usage |-> <<>>]

\* The last Recv of the provider stream returned a transport error.
TransportFailed == recvLog # <<>> /\ recvLog[Len(recvLog)].kind = "err"

\* C17: when the provider transport fails, the accumulator emits a terminal
\* chunk with done=true and finish reason error and stops receiving; the
\* orchestrator, on that chunk, writes a finish-step part immediately
\* followed by a finish-message part, both with finishReason "error".
C17_TransportFailureTerminates ==
  /\ TransportFailed =>
       /\ apc \in {"send", "exited"}
       /\ apc = "send" => pending = ErrorChunk
       /\ ~cancelled => ErrorChunk \in ChunksInFlight
       /\ \A k \in 1..Len(chunks) : chunks[k].Done => (k = Len(chunks) /\ chunks[k] = ErrorChunk)
  /\ (chunk = ErrorChunk /\ abortedAt = "none"
      /\ hpc \in {"save", "annot", "closing", "returned"}) =>
       \E k \in 1..Len(parts) - 1 :
         /\ PartsTagged(PartTypeFinishStep) = {k}
         /\ PartsTagged(PartTypeFinishMessage) = {k + 1}
         /\ FieldOf(PayloadOf(parts[k].line), Key.finishReason) = JS(<<"e", "r", "r", "o", "r">>)
         /\ FieldOf(PayloadOf(parts[k + 1].line), Key.finishReason) = JS(<<"e", "r", "r", "o", "r">>)
         /\ k + 1 = Len(parts) \/ parts[k + 2].tag = PartTypeAnnotation

\* C17 witness: the transport failed after a text delta; the handler wrote
\* the text, the finish-step and the finish-message and returned.
C17_Witness ==
  /\ Len(recvLog) = 2
  /\ recvLog[1].Content = Val.special
  /\ TransportFailed
  /\ chunk = ErrorChunk
  /\ hpc = "returned"
  /\ abortedAt = "none"
  /\ PartsTagged(PartTypeText) # {}
  /\ PartsTagged(PartTypeFinishMessage) # {}

\* The usage the provider reported with the event that ended the turn.
ProviderUsage ==
  IF recvLog # <<>> /\ recvLog[Len(recvLog)].kind = "resp"
  THEN recvLog[Len(recvLog)].Usage
  ELSE <<>>

\* C18: the terminal chunk of a turn carries the token usage reported by the
\* provider, and the finish-step and finish-message parts of the turn carry
\* that same usage (a provider usage of {5,3,8} is in the e and d parts).
C18_UsageCarried ==
  /\ \A c \in ChunksInFlight : c.Done => c.Usage = ProviderUsage
  /\ (chunk.Done /\ ProviderUsage # <<>>) =>
       \A k \in PartsTagged(PartTypeFinishStep) \cup PartsTagged(PartTypeFinishMessage) :
         /\ parts[k].usage = ProviderUsage
         /\ HasField(PayloadOf(parts[k].line), Key.usage)
         /\ FieldOf(PayloadOf(parts[k].line), Key.usage) = UsageData(ProviderUsage)

\* The handler has returned from a turn in which the stream was opened.
TurnHandled == hpc = "returned" /\ sw = "open"

\* C19 as stated: every turn handled by SendMessageStream issues exactly one
\* finish-step part followed by exactly one finish-message part.
C19_OneFinishStepOneFinishMessage ==
  TurnHandled =>
    \E k \in 1..Len(parts) - 1 :
      /\ PartsTagged(PartTypeFinishStep) = {k}
      /\ PartsTagged(PartTypeFinishMessage) = {k + 1}

\* C19, amended: a turn issues at most one finish-step part and at most one
\* finish-message part, both only for the terminal chunk, and a
\* finish-message only immediately after the finish-step.  When the handler
\* gets the terminal chunk and no write call returns an error, it issues
\* exactly one finish-step, followed by exactly one finish-message unless the
\* finish reason is tool-calls, in which case no finish-message is issued.
C19_FinishMarkers ==
  LET E == PartsTagged(PartTypeFinishStep)
      D == PartsTagged(PartTypeFinishMessage)
  IN /\ Cardinality(E) <= 1
     /\ Cardinality(D) <= 1
     /\ \A d \in D : d - 1 \in E
     /\ E # {} => chunk.Done
     /\ \A k \in 1..Len(parts) : k \in E => \A j \in 1..(k - 1) : parts[j].tag # PartTypeFinishMessage
     /\ (TerminalReceived /\ abortedAt = "none"
         /\ hpc \in {"save", "annot", "closing", "returned"}) =>
          /\ Cardinality(E) = 1
          /\ Cardinality(D) =
               (IF MapFinishReason(chunk.FinishReason) = FinishReasonToolCalls THEN 0 ELSE 1)

\* C19 witness: a turn that ended with content_filter after a text delta has
\* returned with one finish-step immediately followed by one finish-message.
C19_Witness ==
  /\ TurnHandled
  /\ abortedAt = "none"
  /\ chunk.FinishReason = ProviderFinish.content_filter
  /\ PartsTagged(PartTypeText) # {}
  /\ \E k \in 1..Len(parts) - 1 :
       /\ PartsTagged(PartTypeFinishStep) = {k}
       /\ PartsTagged(PartTypeFinishMessage) = {k + 1}

\* The protocol value the data stream protocol prescribes for a provider
\* finish reason: the hyphenated form of the five known reasons, any other
\* reason as it is.
ProtocolReason(fr) ==
  CASE fr = <<"s", "t", "o", "p">> -> <<"s", "t", "o", "p">>
    [] fr = <<"l", "e", "n", "g", "t", "h">> -> <<"l", "e", "n", "g", "t", "h">>
    [] fr = <<"t", "o", "o", "l", "_", "c", "a", "l", "l", "s">> ->
         <<"t", "o", "o", "l", "-", "c", "a", "l", "l", "s">>
    [] fr = <<"c", "o", "n", "t", "e", "n", "t", "_", "f", "i", "l", "t", "e", "r">> ->
         <<"c", "o", "n", "t", "e", "n", "t", "-", "f", "i", "l", "t", "e", "r">>
    [] fr = <<"e", "r", "r", "o", "r">> -> <<"e", "r", "r", "o", "r">>
    [] OTHER -> fr

\* C20: the finishReason written in the finish-step and finish-message parts
\* is the provider's reason mapped stop->stop, length->length,
\* tool_calls->tool-calls, content_filter->content-filter, error->error, and
\* any other non-empty reason unchanged; the mapping never fails the turn:
\* whatever the reason, the finish-step is written unless the sink refuses it.
C20_FinishReasonMapping ==
  /\ \A k \in PartsTagged(PartTypeFinishStep) \cup PartsTagged(PartTypeFinishMessage) :
       /\ chunk.FinishReason # <<>>
       /\ parts[k].reason = ProtocolReason(chunk.FinishReason)
       /\ FieldOf(PayloadOf(parts[k].line), Key.finishReason) = JS(ProtocolReason(chunk.FinishReason))
  /\ abortedAt \in {"fstep", "fmsg"} => RefusedBySink(lastErr)
  /\ (TerminalReceived /\ abortedAt = "none"
      /\ hpc \in {"fmsg", "save", "annot", "closing", "returned"}) =>
       PartsTagged(PartTypeFinishStep) # {}

\* C20 witness: a turn ended with the provider reason "eos", which is none of
\* the five known ones; the finish-step and finish-message parts carry "eos".
C20_Witness ==
  /\ chunk.Done
  /\ chunk.FinishReason = <<"e", "o", "s">>
  /\ hpc = "returned"
  /\ abortedAt = "none"
  /\ \E k \in PartsTagged(PartTypeFinishMessage) :
       FieldOf(PayloadOf(parts[k].line), Key.finishReason) = JS(<<"e", "o", "s">>)
  /\ \E k \in PartsTagged(PartTypeFinishStep) :
       FieldOf(PayloadOf(parts[k].line), Key.finishReason) = JS(<<"e", "o", "s">>)

\* The errors a write* call returns for an empty required field.
ConstructionErrors == {"ErrEmptyMessageID", "ErrEmptyToolCallID", "ErrEmptyToolName"}

\* C21: a protocol construction error (empty message id, tool call id or
\* tool name) rejects only the operation it was returned for and does not
\* abort the stream: the handler goes on after it and the remaining parts of
\* the turn, the finish-step included, are still written.
C21_ConstructionErrorNotFatal ==
  /\ lastErr \in ConstructionErrors => abortedAt = "none"
  /\ (lastErr \in ConstructionErrors /\ TerminalReceived /\ hpc = "returned") =>
       PartsTagged(PartTypeFinishStep) # {}

\* The error writePart returns when json.Marshal fails.
EncodingFailed == "failed to marshal data"

\* C22: when a part's payload cannot be JSON-marshalled the write call
\* returns an encoding error, writes no byte and does not flush; only that
\* write is aborted: a later write with a marshalable payload, on a sink that
\* takes it, succeeds on the same encoder.
C22_MarshalFailureAbortsOneWrite ==
  [][calls' = calls + 1 =>
       /\ lastErr' = EncodingFailed =>
            /\ SinkUntouched
            /\ parts' = parts
            /\ sw' = sw
            /\ lastCall'.op \in {PartTypeData, PartTypeAnnotation, PartTypeToolCall, PartTypeToolResult}
       /\ (lastErr = EncodingFailed /\ sinkWrites' = sinkWrites + 1 /\ sinkLast' = "ok") =>
            /\ lastErr' = "nil"
            /\ Len(parts') = Len(parts) + 1
            /\ sink' = sink \o parts'[Len(parts')].line
            /\ flushes' = flushes + 1
    ]_vars

\* C22 witness: a write was rejected for its payload, and the next write on
\* the same encoder was written in full.
C22_Witness ==
  /\ calls = 2
  /\ lastCall.after = EncodingFailed
  /\ lastErr = "nil"
  /\ Len(parts) = 1
  /\ sinkWrites = 1
  /\ sink = parts[1].line

RECURSIVE Emitting(_)
\* The provider events of a log for which a chunk is built: every Recv
\* result but a response with no choices.
Emitting(log) ==
  IF log = <<>> THEN <<>>
  ELSE (IF Head(log).kind # "resp" \/ Head(log).choices THEN <<Head(log)>> ELSE <<>>)
       \o Emitting(Tail(log))

\* Chunk c is the chunk of provider event ev.
ChunkFor(c, ev) ==
  CASE ev.kind = "eof" -> c.Done /\ c.FinishReason = <<"s", "t", "o", "p">> /\ c.Content = <<>>
    [] ev.kind = "err" -> c = ErrorChunk
    [] OTHER ->
         /\ c.Content = ev.Content
         /\ Len(c.ToolCallDeltas) = Len(ev.ToolCalls)
         /\ \A i \in 1..Len(ev.ToolCalls) : c.ToolCallDeltas[i].ArgDelta = ev.ToolCalls[i].Arguments
         /\ c.Done = (ev.FinishReason # <<>>)
         /\ c.FinishReason = ev.FinishReason

\* The chunks sent and not yet received, followed by the one being sent.
Outgoing == chunks \o (IF apc = "send" THEN <<pending>> ELSE <<>>)

\* The outgoing chunks are, in order, the chunks of the latest provider
\* events (the very last one left out when its send was abandoned), and only
\* the last of them may be terminal.
InProviderOrder ==
  LET E == Emitting(recvLog)
      Q == Outgoing
  IN /\ \E off \in 0..Len(E) :
          /\ off + Len(Q) \in (IF apc = "exited" /\ cancelled
                               THEN {Len(E) - 1, Len(E)} ELSE {Len(E)})
          /\ \A k \in 1..Len(Q) : ChunkFor(Q[k], E[off + k])
     /\ \A k \in 1..Len(Q) : Q[k].Done => k = Len(Q)
     /\ chunk.Done => Q = <<>> /\ apc = "exited"

\* C23: chunks reach the orchestrator in exactly the order in which the
\* provider emitted the underlying events: the channel only changes by the
\* accumulator appending the chunk of its latest event or by the handler
\* taking the oldest chunk; at most one chunk with done=true is sent in a
\* turn and none is sent after it, so the terminal chunk is always last.
C23_ChunksInProviderOrder ==
  [][/\ InProviderOrder'
     /\ chunks' # chunks =>
          \/ apc = "send" /\ chunks' = Append(chunks, pending)
          \/ chunks # <<>> /\ chunks' = Tail(chunks) /\ chunk' = Head(chunks)
     /\ (apc = "send" /\ pending.Done /\ chunks' # chunks /\ apc' # apc) => apc' = "exited"
     /\ (chClosed /\ chunks' # chunks) => chunks' = Tail(chunks)
    ]_vars

\* C23 witness: of three events the handler holds the chunk of the first,
\* and the chunks of the second and of the terminal event wait in the
\* channel in that order.
C23_Witness ==
  /\ Len(recvLog) = 3
  /\ recvLog[1].Content = Val.special
  /\ chunk.Content = Val.special
  /\ Len(chunks) = 2
  /\ chunks[1].ToolCallDeltas # <<>>
  /\ chunks[2].Done
  /\ apc = "exited"

\* The channel is closed and the transport released exactly when the
\* accumulator has exited, each once.
ReleasedOnExit ==
  /\ apc = "exited" => chClosed /\ streamCloses = 1
  /\ apc # "exited" => ~chClosed /\ streamCloses = 0

\* C24: on every exit path of the accumulator (provider completion, EOF,
\* provider error, cancellation before a receive, cancellation while
\* sending) the chunk channel is closed exactly once and the provider
\* transport is released exactly once, and no chunk is sent after the
\* channel is closed.
C24_ClosedAndReleasedOnce ==
  [][/\ ReleasedOnExit'
     /\ apc' = "exited" /\ apc # "exited" => chClosed' /\ ~chClosed /\ streamCloses' = streamCloses + 1
     /\ chClosed =>
          /\ chClosed'
          /\ streamCloses' = streamCloses
          /\ apc' = "exited"
          /\ Len(chunks') <= Len(chunks)
          /\ recvLog' = recvLog
    ]_vars

\* C24 witness: the context was cancelled while the accumulator was sending
\* the chunk of its first event; the chunk was never sent, the channel is
\* closed and the transport released.
C24_Witness ==
  /\ Len(recvLog) = 1
  /\ recvLog[1].Content = Val.special
  /\ apc = "exited"
  /\ cancelled
  /\ chunks = <<>>
  /\ chunk = ZeroChunk
  /\ chClosed
  /\ streamCloses = 1

\* The accumulator waits to send on a full channel after the context was
\* cancelled.
BlockedOnFullChannel == cancelled /\ apc = "send" /\ Len(chunks) = ChanCap

\* C25: if the request context is cancelled while the accumulator is waiting
\* to send a chunk on a full channel, the accumulator does not block
\* forever: it eventually gives up the send, exits and closes the channel.
C25_CancelledSendGivesUp ==
  BlockedOnFullChannel ~> (apc = "exited" /\ chClosed)

\* C25 witness: the handler has returned without reading, the channel is
\* full, and the accumulator is waiting to send one more chunk.
C25_Witness ==
  /\ BlockedOnFullChannel
  /\ hpc = "returned"
  /\ ~pending.Done

\* C26: after the request context is cancelled the accumulator reads nothing
\* more from the provider transport (only a receive in flight returns, with
\* an error) and closes its channel, and the handler's wait for the next
\* chunk returns, so that SendMessageStream terminates.
C26_CancellationTerminates ==
  /\ [][(cancelled /\ recvLog' # recvLog) => recvLog' = Append(recvLog, RecvErr)]_vars
  /\ cancelled ~> (apc = "exited" /\ chClosed /\ hpc = "returned")

\* C26 witness: the context was cancelled while the handler was waiting for
\* a chunk and the accumulator was about to receive; both have ended.
C26_Witness ==
  /\ cancelled
  /\ apc = "exited"
  /\ chClosed
  /\ hpc = "returned"
  /\ abortedAt = "none"
  /\ PartsTagged(PartTypeText) # {}
  /\ PartsTagged(PartTypeFinishStep) = {}

\* C27: every chunk the accumulator emits carries completed tool calls only
\* if it is terminal (done=true) and its finish reason is tool_calls;
\* non-terminal chunks and terminal chunks with any other reason carry none,
\* also when tool-call deltas were accumulated before.
C27_ToolCallsOnlyOnToolCallsFinish ==
  \A c \in ChunksInFlight :
    /\ c.ToolCalls # <<>> =>
         c.Done /\ c.FinishReason = <<"t", "o", "o", "l", "_", "c", "a", "l", "l", "s">>
    /\ (c.Done /\ c.FinishReason = <<"t", "o", "o", "l", "_", "c", "a", "l", "l", "s">>
        /\ FragmentsOf(recvLog) # <<>>) => c.ToolCalls # <<>>

\* C27 witness: after tool-call fragments were accumulated the turn ended
\* with finish reason length, and the terminal chunk carries no tool call.
C27_Witness ==
  /\ FragmentsOf(recvLog) # <<>>
  /\ toolCalls # <<>>
  /\ \E c \in ChunksInFlight :
       /\ c.Done
       /\ c.FinishReason = ProviderFinish.length
       /\ c.ToolCalls = <<>>

\* s is a prefix of t.
IsPrefix(s, t) == Len(s) <= Len(t) /\ SubSeq(t, 1, Len(s)) = s

\* C28: in the accumulator, once the entry of an index has a non-empty id
\* (respectively name), no later delta for that index changes it: later
\* deltas only append to the argument buffer, which only grows by appending.
C28_IdAndNameSetOnce ==
  [][\A i \in DOMAIN toolCalls :
       /\ i \in DOMAIN toolCalls'
       /\ toolCalls[i].id # <<>> => toolCalls'[i].id = toolCalls[i].id
       /\ toolCalls[i].name # <<>> => toolCalls'[i].name = toolCalls[i].name
       /\ IsPrefix(toolCalls[i].arguments, toolCalls'[i].arguments)
    ]_vars

\* The number of parts with the given tag written so far.
CountTagged(tag) == Cardinality(PartsTagged(tag))

\* C29: for each completed tool call of the terminal chunk, in the order of
\* the chunk, the handler writes the tool-call part (9) with the call's id,
\* name and parsed arguments, then invokes the gateway exactly once with the
\* call's name and raw argument string, then writes one tool-result part (a)
\* with the same id, before it handles the next call; every tool-call and
\* tool-result part precedes the finish-step part, which is written only
\* after every completed tool call was dispatched.
C29_ToolDispatchInOrder ==
  [](LET n9 == CountTagged(PartTypeToolCall)
         na == CountTagged(PartTypeToolResult)
     IN /\ na <= Len(execLog) /\ Len(execLog) <= n9 /\ n9 <= Len(chunk.ToolCalls)
        /\ n9 - na <= 1
        /\ Len(execLog) # na => abortedAt = "texec"
        /\ \A k \in 1..n9 :
             LET p == parts[NthTagged(PartTypeToolCall, k)]
                 v == PayloadOf(p.line)
                 c == chunk.ToolCalls[k]
             IN /\ FieldOf(v, Key.toolCallId) = JS(c.ID)
                /\ FieldOf(v, Key.toolName) = JS(c.Name)
                /\ FieldOf(v, Key.args) = ParsedArgs(c.Arguments)
        /\ \A k \in 1..Len(execLog) :
             /\ execLog[k].name = chunk.ToolCalls[k].Name
             /\ execLog[k].arguments = chunk.ToolCalls[k].Arguments
        /\ \A k \in 1..na :
             LET r == NthTagged(PartTypeToolResult, k)
             IN /\ FieldOf(PayloadOf(parts[r].line), Key.toolCallId) = JS(chunk.ToolCalls[k].ID)
                /\ NthTagged(PartTypeToolCall, k) < r
                /\ k < n9 => r < NthTagged(PartTypeToolCall, k + 1)
        /\ \A f \in PartsTagged(PartTypeFinishStep) :
             /\ \A q \in PartsTagged(PartTypeToolCall) \cup PartsTagged(PartTypeToolResult) : q < f
             /\ n9 = Len(chunk.ToolCalls)
             /\ na = n9
             /\ Len(execLog) = n9)

\* C29 witness: a terminal chunk with two completed tool calls was handled:
\* parts 9, a, 9, a were written in that order, the gateway was invoked
\* twice, and the finish-step part followed.
C29_Witness ==
  /\ Len(chunk.ToolCalls) = 2
  /\ chunk.ToolCalls[1].ID # chunk.ToolCalls[2].ID
  /\ Len(execLog) = 2
  /\ CountTagged(PartTypeToolCall) = 2
  /\ CountTagged(PartTypeToolResult) = 2
  /\ NthTagged(PartTypeToolResult, 1) < NthTagged(PartTypeToolCall, 2)
  /\ \E f \in PartsTagged(PartTypeFinishStep) : NthTagged(PartTypeToolResult, 2) < f

\* Chunk c carries the text of response ev and a copy of its tool-call
\* fragments in the same order, and is terminal iff ev has a finish reason.
CopyOf(c, ev) ==
  /\ c.Content = ev.Content
  /\ Len(c.ToolCallDeltas) = Len(ev.ToolCalls)
  /\ \A i \in 1..Len(ev.ToolCalls) :
       LET d == c.ToolCallDeltas[i]
           f == ev.ToolCalls[i]
       IN /\ d.Index = (IF f.Index = NoIndex THEN 0 ELSE f.Index)
          /\ d.ID = f.ID
          /\ d.Type = f.Type
          /\ d.Name = f.Name
          /\ d.ArgDelta = f.Arguments
  /\ c.Done = (ev.FinishReason # <<>>)
  /\ c.FinishReason = ev.FinishReason

\* The provider response received in this step, if any.
ResponseReceived(ev) ==
  /\ recvLog' = Append(recvLog, ev)
  /\ ev.kind = "resp"

\* C30 as stated: for each raw provider event of a turn the accumulator
\* emits exactly one chunk, carrying the event's text fragment and a copy of
\* exactly its tool-call delta fragments, with done=false unless the event
\* signals turn completion.
C30_OneChunkPerEvent ==
  [][\A ev \in MidEvents \cup EndEvents :
       ResponseReceived(ev) => apc' = "send" /\ CopyOf(pending', ev)
    ]_vars

\* C30: for each provider response with at least one choice the accumulator
\* builds exactly one chunk, carrying the choice's text fragment and a copy
\* of exactly its tool-call delta fragments (id, type, name and argument
\* fragment in the same order; the index as given, 0 when there is none),
\* with done=false unless the choice has a finish reason; that chunk is what
\* the accumulator sends next, once. A response with no choices gives no
\* chunk: the accumulator goes on to the next receive.
C30_OneChunkPerChoice ==
  [][/\ \A ev \in MidEvents \cup EndEvents :
          ResponseReceived(ev) =>
            IF ev.choices
            THEN apc' = "send" /\ CopyOf(pending', ev)
            ELSE apc' = "recv" /\ pending' = pending /\ chunks' = chunks
     /\ pending' # pending => recvLog' # recvLog
     /\ Len(chunks') > Len(chunks) =>
          /\ apc = "send"
          /\ chunks' = Append(chunks, pending)
          /\ apc' # "send"
          /\ recvLog' = recvLog
    ]_vars

\* C30 witness: after a response with no choices, for which nothing was
\* sent, the accumulator is sending the chunk of a response with two
\* tool-call fragments, which carries both in order.
C30_Witness ==
  /\ Len(recvLog) = 2
  /\ recvLog[1] = RespNoChoices
  /\ Len(recvLog[2].ToolCalls) = 2
  /\ apc = "send"
  /\ chunks = <<>>
  /\ hpc = "loop"
  /\ CopyOf(pending, recvLog[2])
  /\ pending.ToolCallDeltas[1].ID # pending.ToolCallDeltas[2].ID

\* The indices of S in ascending order.
Ascending(S) ==
  CHOOSE f \in Orders(S) : \A a, b \in 1..Cardinality(S) : a < b => f[a] < f[b]

\* C31: tool dispatch is deterministic: for a provider event sequence that
\* accumulates two or more tool-call indices, the completed tool calls of
\* the terminal chunk (and so the 9/a parts and the tool executions) are in
\* ascending index order in every run.
C31_AscendingIndexOrder ==
  \A c \in ChunksInFlight :
    (c.Done /\ c.FinishReason = ProviderFinish.tool_calls) =>
      c.ToolCalls = [k \in 1..Cardinality(DOMAIN toolCalls) |->
                       ToolCallOf(toolCalls[Ascending(DOMAIN toolCalls)[k]])]

\* The handler has returned while the accumulator is still running.
Abandoned == hpc = "returned" /\ apc # "exited"

\* C32: no accumulator leak on consumer abandonment: whenever the handler
\* has returned without draining the channel (after a part-write failure or
\* after NewStreamWriter failed), the request context is done, and the
\* accumulator eventually exits, closing the channel and releasing the
\* provider transport, even when more chunks than the channel holds remain.
C32_NoLeakOnAbandonment ==
  /\ [](hpc = "returned" => cancelled)
  /\ Abandoned ~> (apc = "exited" /\ chClosed /\ streamCloses = 1)

\* C32 witness: the handler returned after a refused write without reading
\* any chunk; the channel is full and the accumulator is blocked sending
\* one more chunk, with more of the turn still to come.
C32_Witness ==
  /\ Abandoned
  /\ abortedAt = "start"
  /\ Len(chunks) = ChanCap
  /\ apc = "send"
  /\ ~pending.Done
  /\ Len(recvLog) = ChanCap + 1

\* The chunk loop ended because the channel was closed, no terminal chunk
\* having been received.
ClosedBeforeTerminal ==
  /\ hpc \in {"save", "annot", "closing", "returned"}
  /\ sw = "open"
  /\ abortedAt = "none"
  /\ ~chunk.Done

\* C33: if the chunk channel is closed before any terminal chunk was
\* received (the accumulator exited on cancellation), the handler writes
\* neither a finish-step nor a finish-message part, and still invokes
\* persistence of the text accumulated so far exactly once and then attempts
\* the annotation part.
C33_ClosedChannelEndsTurnQuietly ==
  ClosedBeforeTerminal =>
    /\ cancelled /\ chClosed /\ apc = "exited"
    /\ PartsTagged(PartTypeFinishStep) = {}
    /\ PartsTagged(PartTypeFinishMessage) = {}
    /\ saved = (IF hpc = "save" THEN <<>> ELSE <<fullContent>>)
    /\ hpc \in {"save", "annot"} => PartsTagged(PartTypeAnnotation) = {}
    /\ hpc \in {"closing", "returned"} => lastCall.op = PartTypeAnnotation

\* C33 witness: the context was cancelled after a text chunk; the handler
\* found the channel closed, saved the text, wrote the annotation and
\* returned, without any finish part.
C33_Witness ==
  /\ ClosedBeforeTerminal
  /\ hpc = "returned"
  /\ fullContent # <<>>
  /\ saved = <<fullContent>>
  /\ PartsTagged(PartTypeAnnotation) # {}
  /\ PartsTagged(PartTypeFinishStep) = {}

RECURSIVE TextWritten(_)
\* The concatenation, in order, of the payloads of the text parts among the
\* first n parts written, decoded from their lines.
TextWritten(n) ==
  IF n = 0 THEN <<>>
  ELSE TextWritten(n - 1)
       \o (IF parts[n].tag = PartTypeText THEN PayloadOf(parts[n].line)[2] ELSE <<>>)

\* C34: persistence of the assistant message is invoked at most once per
\* turn and only after the chunk loop has ended (terminal chunk handled, or
\* channel closed and drained); the content persisted is the concatenation,
\* in order, of the payloads of all text parts written to the sink in the
\* turn; and a failure of the persistence call does not prevent the
\* annotation part from being written.
C34_PersistOnceAfterLoop ==
  /\ Len(saved) <= 1
  /\ (saved = <<>>) = (saveErr = "none")
  /\ saved # <<>> =>
       /\ hpc \in {"annot", "closing", "returned"}
       /\ abortedAt = "none"
       /\ chunk.Done \/ (chClosed /\ chunks = <<>>)
       /\ saved[1] = fullContent
       /\ saved[1] = TextWritten(Len(parts))
       /\ hpc \in {"closing", "returned"} => lastCall.op = PartTypeAnnotation
       /\ (hpc \in {"closing", "returned"} /\ lastErr = "nil") =>
            parts[Len(parts)].tag = PartTypeAnnotation

\* C34 witness: two text parts were written, the persistence call was made
\* once with their concatenation and failed, and the annotation part was
\* written after it.
C34_Witness ==
  /\ hpc = "returned"
  /\ saveErr = "err"
  /\ Cardinality(PartsTagged(PartTypeText)) = 2
  /\ saved = <<TextWritten(Len(parts))>>
  /\ parts[Len(parts)].tag = PartTypeAnnotation

\* The channel buffer is full and the accumulator is at its send.
SendBlocked == apc = "send" /\ Len(chunks) = ChanCap

\* C35: the chunk channel never holds more than 10 undelivered chunks: a
\* chunk is only added while fewer than 10 are buffered, and while 10 are
\* buffered the accumulator stays at its send, reading no further provider
\* event, until the handler receives a chunk or the context is cancelled
\* (and then it exits without sending).
C35_ChannelBounded ==
  [][/\ Len(chunks') <= ChanCap
     /\ Len(chunks') > Len(chunks) => Len(chunks) < ChanCap
     /\ SendBlocked =>
          /\ recvLog' = recvLog
          /\ pending' = pending
          /\ Len(chunks') <= Len(chunks)
          /\ apc' # apc => (cancelled /\ apc' = "exited" /\ chunks' = chunks)
    ]_vars

\* C35 witness: ten chunks are buffered, the accumulator holds the eleventh
\* at its send, the context is live and the handler is still in its loop.
C35_Witness ==
  /\ SendBlocked
  /\ ~cancelled
  /\ hpc = "loop"
  /\ Len(recvLog) = ChanCap + 1

\* C36: within a turn, no argument-delta part (c) and no tool-call part (9)
\* for a tool call id is written before the tool-call-start part (b) for
\* that id, however id, name and argument fragments are split across deltas,
\* and at most one b part is written per index.
C36_StartPrecedesDeltasAndCall ==
  /\ \A k \in PartsTagged(PartTypeToolCallArgDelta) \cup PartsTagged(PartTypeToolCall) :
       \E j \in PartsTagged(PartTypeToolCallStart) : j < k /\ parts[j].id = parts[k].id
  /\ \A j, k \in PartsTagged(PartTypeToolCallStart) : parts[j].idx = parts[k].idx => j = k

\* The assembled argument string of the k-th completed tool call is not
\* valid JSON.
InvalidArgs(k) == JsonUnmarshal(chunk.ToolCalls[k].Arguments).err

\* C37: tool-call arguments are parsed once, after assembly: argument
\* fragments are streamed as raw strings (c parts), and if the assembled
\* argument string of a completed tool call is not valid JSON the turn is
\* not aborted: the tool-call part (9) is written with args set to the raw
\* string, the gateway is invoked with the raw string, and a tool-result
\* part follows. Only a write error ends the turn at that call.
C37_InvalidArgumentsPassedRaw ==
  /\ \A k \in PartsTagged(PartTypeToolCallArgDelta) :
       FieldOf(PayloadOf(parts[k].line), Key.argsTextDelta) = JS(parts[k].text)
  /\ \A k \in 1..CountTagged(PartTypeToolCall) :
       InvalidArgs(k) =>
         LET raw == chunk.ToolCalls[k].Arguments
             p   == NthTagged(PartTypeToolCall, k)
         IN /\ FieldOf(PayloadOf(parts[p].line), Key.args) = JS(raw)
            /\ k <= Len(execLog) => execLog[k].arguments = raw
            /\ k > Len(execLog) => (hpc = "texec" /\ tj = k)
            /\ k > CountTagged(PartTypeToolResult) =>
                 \/ hpc = "texec" /\ tj = k
                 \/ abortedAt = "texec" /\ RefusedBySink(lastErr)
            /\ k <= CountTagged(PartTypeToolResult) =>
                 /\ p < NthTagged(PartTypeToolResult, k)
                 /\ parts[NthTagged(PartTypeToolResult, k)].id = chunk.ToolCalls[k].ID
  /\ abortedAt = "tcall" => (RefusedBySink(lastErr) \/ lastErr \in ConstructionErrors)

\* C37 witness: of two completed tool calls one has the incomplete JSON
\* text {"loc": as assembled arguments; its 9 part was written with the raw
\* string as args, the gateway was invoked with it, both tool-result parts
\* were written and the finish-step part followed.
C37_Witness ==
  /\ Len(chunk.ToolCalls) = 2
  /\ Len(execLog) = 2
  /\ CountTagged(PartTypeToolCall) = 2
  /\ CountTagged(PartTypeToolResult) = 2
  /\ CountTagged(PartTypeFinishStep) = 1
  /\ \E k \in 1..2 :
       /\ chunk.ToolCalls[k].Arguments = Val.loc
       /\ InvalidArgs(k)
       /\ execLog[k].arguments = Val.loc

\* The result value written for the k-th executed tool call.
ResultWritten(k) ==
  FieldOf(PayloadOf(parts[NthTagged(PartTypeToolResult, k)].line), Key.result)

\* C38: ExecuteTool never returns an error: an error of the registry or of
\* the handler becomes a result with Success=false and the error text, and
\* a tool that is not registered gives Success=false with the unknown-tool
\* message whatever its handler would have done (none is invoked); hence
\* every dispatched tool call produces exactly one result value, and the
\* handler's branch for a failed execution is never taken.
C38_ExecuteToolNeverFails ==
  /\ \A tn \in {Val.get_weather, Val.get_time}, h \in HandlerOutcomes :
       ExecuteTool(tn, Val.empty, h).err = <<>>
  /\ CountTagged(PartTypeToolResult) =
       Len(execLog) - (IF abortedAt = "texec" THEN 1 ELSE 0)
  /\ \A k \in 1..CountTagged(PartTypeToolResult) :
       LET v == ResultWritten(k)
           x == execLog[k]
       IN /\ HasField(v, Key.success)
          /\ IF x.name \notin RegisteredTools
             THEN /\ FieldOf(v, Key.success) = JB(FALSE)
                  /\ FieldOf(v, Key.error) = JS(Msg.unknown_tool \o x.name)
                  /\ HasField(v, Key.result)
             ELSE CASE x.outcome = "ok" ->
                         /\ FieldOf(v, Key.success) = JB(TRUE)
                         /\ ~HasField(v, Key.error)
                         /\ HasField(v, Key.result)
                    [] x.outcome = "failed" ->
                         /\ FieldOf(v, Key.success) = JB(FALSE)
                         /\ FieldOf(v, Key.error) = JS(Msg.bad)
                         /\ HasField(v, Key.result)
                    [] OTHER ->
                         /\ FieldOf(v, Key.success) = JB(FALSE)
                         /\ FieldOf(v, Key.error) = JS(Msg.boom)
                         /\ ~HasField(v, Key.result)

\* C38 witness: an unregistered tool was dispatched while its handler
\* outcome was drawn as a success, and a registered tool's handler returned
\* an error; each produced one result with success=false.
C38_Witness ==
  /\ Len(execLog) = 2
  /\ CountTagged(PartTypeToolResult) = 2
  /\ \E k \in 1..2 :
       /\ execLog[k].name = Val.get_time
       /\ execLog[k].outcome = "ok"
       /\ FieldOf(ResultWritten(k), Key.success) = JB(FALSE)
  /\ \E k \in 1..2 :
       /\ execLog[k].name = Val.get_weather
       /\ execLog[k].outcome = "err"
       /\ FieldOf(ResultWritten(k), Key.error) = JS(Msg.boom)

\* C39: in every turn the start part (f) is the first part written and is
\* written exactly once, no other part is written unless the start part
\* succeeded, and the messageId in the annotation part equals the messageId
\* in the start part of the same turn.
C39_StartFirstAndOnce ==
  /\ parts # <<>> => PartsTagged(PartTypeStart) = {1}
  /\ (sw = "open" /\ sink # <<>>) => sink[1] = PartTypeStart
  /\ abortedAt = "start" =>
       /\ parts = <<>>
       /\ lastCall.op = PartTypeStart
       /\ hpc \in {"closing", "returned"}
  /\ hpc \in {"new", "start"} => (parts = <<>> /\ sink = <<>>)
  /\ \A k \in PartsTagged(PartTypeAnnotation) :
       /\ FieldOf(PayloadOf(parts[1].line), Key.messageId) = JS(MessageID)
       /\ FieldOf(PayloadOf(parts[k].line)[2][1], Key.messageId)
            = FieldOf(PayloadOf(parts[1].line), Key.messageId)

\* C39 witness: a turn wrote the start part, text, finish parts and the
\* annotation part, which carries the start part's messageId.
C39_Witness ==
  /\ hpc = "returned"
  /\ Len(parts) >= 5
  /\ parts[1].tag = PartTypeStart
  /\ parts[2].tag = PartTypeText
  /\ parts[Len(parts)].tag = PartTypeAnnotation
  /\ FieldOf(PayloadOf(parts[Len(parts)].line)[2][1], Key.messageId) = JS(MessageID)

=============================================================================
